---- MODULE Spec2Model ----
(***************************************************************************)
(* A model of twitch-gamepad: the input scheduler (src/src/gamepad.rs),    *)
(* and the moderation and mode arbiter (src/src/command.rs over            *)
(* src/src/database.rs).                                                   *)
(***************************************************************************)
EXTENDS Integers, Sequences, FiniteSets, TLC

(***************************************************************************)
(* Bounds of the model.                                                    *)
(***************************************************************************)
\* packets the scheduler receives before the upstream channel closes
MaxPackets == 3

\* the same, in the runs that check that the scheduler returns
MaxLivePackets == 2

(***************************************************************************)
(* command.rs: Movement, MovementPacket                                    *)
(***************************************************************************)
\* the Movement enum in declaration order, the order Movement::iter() yields
MovementOrder ==
    << "A", "B", "C", "X", "Y", "Z", "TL", "TR",
       "Up", "Down", "Left", "Right", "Start", "Select", "Mode" >>

Movement == { MovementOrder[i] : i \in 1..Len(MovementOrder) }

\* MovementPacket::contains_direction
ContainsDirection(packet) ==
    \E i \in 1..Len(packet.movements) :
        packet.movements[i] \in {"Up", "Down", "Left", "Right", "Start", "Select"}

\* the packet SaveState / LoadState / Reset forward
StatePacket(second) ==
    [movements |-> <<"Mode", second>>, duration |-> 100, stagger |-> 100,
     blocking |-> TRUE]

\* the movement lists and durations (ms) of the parser's packets the model draws
ParsedMovements ==
    { <<"A">>, <<"B">>, <<"Left">>, <<"Start">>, <<"Left", "B">> }

ParsedDurations == {0, 150}

ParsedPackets ==
    { [movements |-> ms, duration |-> d, stagger |-> 0, blocking |-> FALSE] :
        ms \in ParsedMovements, d \in ParsedDurations }

\* everything the arbiter can put on the scheduler's channel
ForwardablePackets ==
    ParsedPackets \cup { StatePacket("A"), StatePacket("B") }

(***************************************************************************)
(* State.                                                                  *)
(***************************************************************************)
VARIABLES
    \* RunnerState (gamepad.rs)
    movement_time_remaining,  \* Movement -> ms left
    apply_next_tick,          \* Option<MovementPacket>: <<>> or <<packet>>
    packet_queue,             \* VecDeque<MovementPacket>
    draining,                 \* the upstream channel has closed
    actions,                  \* the gamepad's trace of press / release events
    \* history of the scheduler's run
    received,                 \* the packets received, in order, with the
                              \* buttons active and the trace length on arrival
    done                      \* gamepad_runner has returned

schedVars ==
    << movement_time_remaining, apply_next_tick, packet_queue, draining,
       actions, received, done >>

VARIABLES
    \* locals of run_commands (command.rs)
    anarchy_mode,             \* AnarchyType
    cooldown,                 \* chrono::Duration, in clock ticks
    current_game,             \* Option<&ConstructedGameInfo>, by game name
    \* the tables of the database (database.rs init_db)
    users,                    \* set of rows [twitch_id, name]
    operators,                \* set of twitch_id
    blocked_users,            \* twitch_id -> Option<row's unblock_time>
    last_command_time,        \* twitch_id -> Option<time>
    config_kv,                \* key -> Option<text>
    \* the environment of the arbiter
    now,                      \* chrono::Utc::now(), in clock ticks
    foreign_keys,             \* whether the SQLite build enforces references
    running,                  \* run_commands has not returned
    \* the packets the latest message put on gamepad_tx, and its sender
    forwarded,
    \* history: per sender, the times of the latest Movement commands that
    \* were forwarded in a row under Democracy with a cooldown, the sender
    \* below Operator (at most the last two, with the cooldown then in force)
    cooled_moves,
    \* history: what run_commands found under each key of config_kv when it
    \* started (None until it starts)
    found

arbVars ==
    << anarchy_mode, cooldown, current_game, users, operators, blocked_users,
       last_command_time, config_kv, now, foreign_keys, running, forwarded,
       cooled_moves, found >>

VARIABLES
    \* game_runner_loop (game_runner.rs)
    sup_rx,                   \* the GameRunner commands sent and not yet received
    sup_closed,               \* every Sender of the channel has been dropped
    sup_pc,                   \* where game_runner_loop stands
    sup_cmd,                  \* the command whose stop_child awaits child.wait()
    current_process,          \* Option<Child>: a pid and whether the handle
                              \* has seen the exit (then Child::id() is None)
    child_pid_atomic,         \* the process-wide AtomicI32
    \* the environment of the supervisor
    alive,                    \* the pids of the spawned processes still running
    signalled,                \* the pids SIGTERM was sent to, dead or alive
    spawned,                  \* how many processes have been spawned
    sent                      \* how many commands have been sent

supVars ==
    << sup_rx, sup_closed, sup_pc, sup_cmd, current_process, child_pid_atomic,
       alive, signalled, spawned, sent >>

VARIABLES
    \* sound_effect_runner (game_runner.rs)
    sfx_rx,                   \* the SfxRequests sent and not yet received
    is_enabled,               \* the flag of sound_effect_runner
    last_effect,              \* the request the last pass of its loop received
    playing,                  \* the file the last pass of its loop started
                              \* the audio command on, if it started it
    sfx_cfg                   \* config.sound_effects

sfxVars == << sfx_rx, is_enabled, last_effect, playing, sfx_cfg >>

VARIABLES
    \* parse_command (command.rs)
    input,                    \* the line, split on whitespace
    parsed                    \* what parse_command returned for it, once called

parseVars == << input, parsed >>

\* the state of the tasks beside the scheduler and the arbiter
sideVars == << supVars, sfxVars, parseVars >>

vars == << schedVars, arbVars, sideVars >>

\* run_game_runner: the channel is empty, no child, the atomic holds 0
SupInit ==
    /\ sup_rx = <<>>
    /\ sup_closed = FALSE
    /\ sup_pc = "select"
    /\ sup_cmd = <<>>
    /\ current_process = <<>>
    /\ child_pid_atomic = 0
    /\ alive = {}
    /\ signalled = {}
    /\ spawned = 0
    /\ sent = 0

\* a SoundEffectConfig: one sound, played from five gifted subs on
DefaultSfxConfig ==
    [sounds |-> [name \in {"horn"} |-> "horn.mp4"],
     sub_events |-> [threshold \in {5} |-> "horn"]]

\* run_sfx_runner over the configuration cfg: the channel is empty and the
\* flag is set
SfxInit(cfg) ==
    /\ sfx_rx = <<>>
    /\ is_enabled = TRUE
    /\ last_effect = <<>>
    /\ playing = <<>>
    /\ sfx_cfg = cfg

\* the line is there and parse_command has not been called
ParseInit(line) ==
    /\ input = line
    /\ parsed = <<>>

SideInit == SupInit /\ SfxInit(DefaultSfxConfig) /\ ParseInit(<<>>)

(***************************************************************************)
(* gamepad.rs: RunnerState.  The operators act on a record of the fields   *)
(* the handlers mutate; a packet in flight carries the index at which it   *)
(* was received (id), which the trace records as the cause of an event.    *)
(***************************************************************************)
UpdateIntervalMs == 100

RunnerState ==
    [movement_time_remaining |-> movement_time_remaining,
     apply_next_tick |-> apply_next_tick,
     packet_queue |-> packet_queue,
     draining |-> draining,
     actions |-> actions]

\* Gamepad::press / Gamepad::release, as the recording gamepad sees them:
\* the events of pressing (releasing) the movements ms in order; by is the
\* packet whose processing made the calls, 0 for a tick's timeout
Presses(ms, by) ==
    [i \in 1..Len(ms) |-> [type |-> "press", m |-> ms[i], by |-> by]]

Releases(ms, by) ==
    [i \in 1..Len(ms) |-> [type |-> "release", m |-> ms[i], by |-> by]]

Reversed(ms) == [i \in 1..Len(ms) |-> ms[Len(ms) + 1 - i]]

\* u64::saturating_sub
SaturatingSubStuck(a, b) == IF a >= b THEN a - b ELSE a

SaturatingSub(a, b) == IF a >= b THEN a - b ELSE 0

TimeRemainingEmpty(s) ==
    \A m \in Movement : s.movement_time_remaining[m] = 0

\* the movements of ms that cancel_if_active, called on each in order, finds
\* active: the first occurrence of each active one
Cancelled(s, ms) ==
    LET first == SelectSeq([i \in 1..Len(ms) |-> i],
                     LAMBDA i : /\ s.movement_time_remaining[ms[i]] > 0
                                /\ \A j \in 1..(i - 1) : ms[j] # ms[i])
    IN  [k \in 1..Len(first) |-> ms[first[k]]]

\* cancel_if_active over the movements ms in order:
\* [s |-> the state after, cancelled |-> whether any call returned true]
CancelEach(s, ms, by) ==
    [s |-> [s EXCEPT
              !.movement_time_remaining =
                  [m \in Movement |->
                      IF \E i \in 1..Len(ms) : ms[i] = m THEN 0 ELSE @[m]],
              !.actions = @ \o Releases(Cancelled(s, ms), by)],
     cancelled |-> Cancelled(s, ms) # <<>>]

CancelDirectionalAndFace(s, by) ==
    CancelEach(s, <<"Up", "Down", "Left", "Right", "A", "B">>, by)

CancelDirectional(s, by) ==
    CancelEach(s, <<"Up", "Down", "Left", "Right">>, by)

PacketCanRun(s, packet) ==
    \A i \in 1..Len(packet.movements) :
        s.movement_time_remaining[packet.movements[i]] = 0

\* press every movement of the packet and start its time (process_packet's
\* "Executing immediately" loop, and process_tick's apply_next_tick loop)
PressEach(s, packet) ==
    [s EXCEPT
       !.actions = @ \o Presses(packet.movements, packet.id),
       !.movement_time_remaining =
           [m \in Movement |->
               IF \E i \in 1..Len(packet.movements) : packet.movements[i] = m
               THEN packet.duration ELSE @[m]]]

BlockingMovementForwardRelease(s, packet) ==
    [s EXCEPT !.actions = @ \o Presses(packet.movements, packet.id)
                            \o Releases(packet.movements, packet.id)]

\* blocking_movement: the sleeps suspend the scheduler's only task, so the
\* presses and releases are one step of the scheduler
BlockingMovement(s, packet) ==
    [s EXCEPT !.actions = @ \o Presses(packet.movements, packet.id)
                            \o Releases(Reversed(packet.movements), packet.id)]

\* process_packet, lines 181-183: a packet that arrives behind a queue waits
ArrivesBehindQueueNever(s, ticking) == FALSE

ArrivesBehindQueue(s, ticking) ==
    ~ticking /\ s.packet_queue # <<>>

\* process_packet, lines 185-199: a packet with a direction releases the
\* active d-pad buttons and its own active buttons
Preempt(s, packet) ==
    LET dir == CancelDirectional(s, packet.id)
        own == CancelEach(dir.s, packet.movements, packet.id)
    IN  [s |-> own.s, cancelled |-> dir.cancelled \/ own.cancelled]

\* process_packet, lines 181-211: a packet that is not blocking
ProcessNonBlocking(s, packet, ticking) ==
    IF ArrivesBehindQueue(s, ticking) THEN [s |-> s, processed |-> FALSE]
    ELSE IF ContainsDirection(packet) /\ Preempt(s, packet).cancelled
    THEN [s |-> [Preempt(s, packet).s EXCEPT !.apply_next_tick = <<packet>>],
          processed |-> TRUE]
    ELSE IF ContainsDirection(packet) \/ PacketCanRun(s, packet)
    THEN [s |-> PressEach(s, packet), processed |-> TRUE]
    ELSE [s |-> s, processed |-> FALSE]

ProcessPacketAsNonBlocking(s, packet, ticking) ==
    ProcessNonBlocking(s, packet, ticking)

\* process_packet
ProcessPacket(s, packet, ticking) ==
    IF packet.blocking
    THEN IF TimeRemainingEmpty(s)
         THEN [s |-> BlockingMovement(s, packet), processed |-> TRUE]
         ELSE [s |-> s, processed |-> FALSE]
    ELSE ProcessNonBlocking(s, packet, ticking)

\* process_message(Some(packet))
ProcessMessage(s, packet) ==
    IF ProcessPacket(s, packet, FALSE).processed
    THEN ProcessPacket(s, packet, FALSE).s
    ELSE [s EXCEPT !.packet_queue = Append(@, packet)]

\* process_tick, lines 234-246: decrement and release, in enum order
TickDown(s) ==
    [s EXCEPT
       !.movement_time_remaining =
           [m \in Movement |->
               IF @[m] = 0 THEN 0 ELSE SaturatingSub(@[m], UpdateIntervalMs)],
       !.actions = @ \o Releases(
           SelectSeq(MovementOrder,
               LAMBDA m : /\ s.movement_time_remaining[m] # 0
                          /\ SaturatingSub(s.movement_time_remaining[m],
                                           UpdateIntervalMs) = 0),
           0)]

\* process_tick, lines 248-253
ApplyNextTick(s) ==
    IF s.apply_next_tick = <<>> THEN s
    ELSE PressEach([s EXCEPT !.apply_next_tick = <<>>], s.apply_next_tick[1])

\* process_tick, lines 256-262
RECURSIVE DrainQueue(_)
DrainQueue(s) ==
    IF s.packet_queue = <<>> THEN s
    ELSE IF ProcessPacket(s, Head(s.packet_queue), TRUE).processed
    THEN DrainQueue([ProcessPacket(s, Head(s.packet_queue), TRUE).s
                        EXCEPT !.packet_queue = Tail(@)])
    ELSE s   \* popped, refused unchanged, pushed back to the front

\* process_tick, lines 266-270: the result, given the state after the tick
TickExit(s) ==
    s.draining /\ TimeRemainingEmpty(s) /\ s.packet_queue = <<>>

(***************************************************************************)
(* gamepad_runner: the select! loop over the channel and the interval.     *)
(***************************************************************************)
SetRunnerState(s) ==
    /\ movement_time_remaining' = s.movement_time_remaining
    /\ apply_next_tick' = s.apply_next_tick
    /\ packet_queue' = s.packet_queue
    /\ draining' = s.draining
    /\ actions' = s.actions

ActiveButtons == { m \in Movement : movement_time_remaining[m] > 0 }

\* rx.recv() yields Some(packet)
Receive(packet) ==
    /\ ~done
    /\ ~draining
    /\ Len(received) < MaxPackets
    /\ LET p == [movements |-> packet.movements, duration |-> packet.duration,
                 stagger |-> packet.stagger, blocking |-> packet.blocking,
                 id |-> Len(received) + 1]
       IN  /\ \E s \in {ProcessMessage(RunnerState, p)} : SetRunnerState(s)
           /\ received' = Append(received,
                  [packet |-> p, active |-> ActiveButtons, at |-> Len(actions)])
    /\ UNCHANGED done
    /\ UNCHANGED << arbVars, sideVars >>

\* rx.recv() yields None: the senders are gone
ChannelClosed ==
    /\ ~done
    /\ ~draining
    /\ draining' = TRUE
    /\ UNCHANGED << movement_time_remaining, apply_next_tick, packet_queue,
                    actions, received, done >>
    /\ UNCHANGED << arbVars, sideVars >>

\* interval.tick(): process_tick, step by step
Tick ==
    /\ ~done
    /\ \E all_zero \in {TimeRemainingEmpty(RunnerState)} :
       \E ticked \in {TickDown(RunnerState)} :
       \E applied \in {ApplyNextTick(ticked)} :
       \E s \in {IF all_zero THEN DrainQueue(applied) ELSE applied} :
           /\ SetRunnerState(s)
           /\ done' = TickExit(s)
    /\ UNCHANGED received
    /\ UNCHANGED << arbVars, sideVars >>

SchedInit ==
    /\ movement_time_remaining = [m \in Movement |-> 0]
    /\ apply_next_tick = <<>>
    /\ packet_queue = <<>>
    /\ draining = FALSE
    /\ actions = <<>>
    /\ received = <<>>
    /\ done = FALSE

SchedNext ==
    \/ \E packet \in ForwardablePackets : Receive(packet)
    \/ ChannelClosed
    \/ Tick

(***************************************************************************)
(* The messages the arbiter is given.                                      *)
(***************************************************************************)
\* Option<T>
None == <<>>

Some(x) == <<x>>

\* enum Privilege, ordered by its discriminants
Standard == 0

Operator == 1

Moderator == 2

Broadcaster == 3

\* clock ticks to the millisecond
TicksPerMs == 4

\* the clock runs from 0 to MaxTime ticks
MaxTime == 2

\* the longest cooldown a SetCooldown asks for, in ticks
MaxCooldown == 2

\* the largest number of milliseconds read back from the store
MaxStoredMs == 2

UserIds == {"1", "2"}

NameOrder == <<"ann", "bob">>

\* who sends, and the privilege twitch.rs user_privilege asserts for them:
\* user 1 is a viewer named ann, user 2 a moderator named bob
Senders ==
    { [sender_id |-> "1", sender_name |-> "ann", privilege |-> Standard],
      [sender_id |-> "2", sender_name |-> "bob", privilege |-> Moderator] }

\* the names moderation commands are aimed at: the viewer's, and one that
\* nobody bears
TargetNames == {"ann", "zed"}

CooldownChoices == {0, MaxCooldown}

\* Block's deadline: none, or a time of the clock
UntilChoices == {<<>>} \cup { <<t>> : t \in {MaxTime - 1} }

MovementCommands ==
    { [type |-> "Movement", packet |-> p] :
        p \in { q \in ParsedPackets :
                  q.duration = 150 /\ q.movements \in {<<"A">>, <<"Start">>} } }

ModerationCommands ==
    { [type |-> "SetAnarchyMode", mode |-> am] :
        am \in {"Anarchy", "Democracy", "Restricted", "Streaming"} }
    \cup { [type |-> "SetCooldown", cd |-> cd] : cd \in CooldownChoices }
    \cup { [type |-> t, user |-> n] :
             t \in {"AddOperator", "RemoveOperator", "Unblock"}, n \in TargetNames }
    \cup { [type |-> "Block", user |-> n, until |-> u] :
             n \in TargetNames, u \in UntilChoices }
    \cup { [type |-> "Game", game |-> g] : g \in {"game1", "game2"} }
    \cup { [type |-> "Stop"] }

OtherCommands ==
    { [type |-> t] :
        t \in {"SaveState", "LoadState", "Reset", "PrintHelp", "ListGames",
               "ListOperators", "ListBlocked", "PrintAnarchyMode"} }
    \cup { [type |-> "Partial", partial |-> "tp op <user>"],
           [type |-> "PlaySfx", sfx |-> "horn"],
           [type |-> "Controls", game |-> <<>>],
           [type |-> "Controls", game |-> <<"game1">>] }

Commands == MovementCommands \cup ModerationCommands \cup OtherCommands

Message(c, u) ==
    [command |-> c, sender_id |-> u.sender_id, sender_name |-> u.sender_name,
     privilege |-> u.privilege]

Messages == { Message(c, u) : c \in Commands, u \in Senders }

(***************************************************************************)
(* The arbiter: command.rs run_commands over the tables of database.rs.    *)
(* Times and durations are counted in clock ticks, TicksPerMs to the       *)
(* millisecond, so that a duration can hold a fraction of a millisecond.   *)
(***************************************************************************)
\* AnarchyType::to_str
AnarchyToStr(am) ==
    CASE am = "Anarchy" -> "anarchy"
      [] am = "Democracy" -> "democracy"
      [] am = "Restricted" -> "restricted"
      [] am = "Streaming" -> "streaming"

AnarchyType == {"Anarchy", "Democracy", "Restricted", "Streaming"}

\* AnarchyType::from_str
AnarchyFromStr(str) ==
    IF \E am \in AnarchyType : AnarchyToStr(am) = str
    THEN Some(CHOOSE am \in AnarchyType : AnarchyToStr(am) = str)
    ELSE None

\* chrono::Duration::milliseconds
DurationMilliseconds(ms) == ms * TicksPerMs

\* chrono::Duration::num_milliseconds
NumMilliseconds(d) == d \div TicksPerMs

\* chrono::Duration::num_seconds
NumSeconds(d) == d \div (1000 * TicksPerMs)

\* the whole milliseconds a stored cooldown can hold
StoredMilliseconds == (0 - MaxStoredMs)..MaxStoredMs

\* str::parse::<i64> of a stored cooldown
ParseCooldown(text) ==
    IF \E n \in StoredMilliseconds : ToString(n) = text
    THEN Some(CHOOSE n \in StoredMilliseconds : ToString(n) = text)
    ELSE None

\* config.game_command_list(): the games of the configuration file
GameCommands ==
    [g \in {"game1"} |->
        [name |-> g, command |-> "run-game1", restricted_inputs |-> {"Start"},
         controls_msg |-> Some("a jumps")]]

\* is_movement_restricted, finding nothing restricted
IsMovementRestrictedNever(game, packet) == FALSE

\* ConstructedGameInfo::is_movement_restricted
IsMovementRestricted(game, packet) ==
    \E i \in 1..Len(packet.movements) :
        packet.movements[i] \in game.restricted_inputs

\* config.sound_effects is set, so that sfx_player_tx is Some
SfxPlayerConfigured == TRUE

(***************************************************************************)
(* database.rs.  s is the arbiter's state: the locals of run_commands, the *)
(* tables, the clock and the build's foreign_keys setting.                 *)
(***************************************************************************)
\* set_kv
SetKv(s, key, value) == [s EXCEPT !.config_kv[key] = Some(value)]

\* get_or_set_kv
GetOrSetKv(s, key, default) ==
    IF s.config_kv[key] # None
    THEN [s |-> s, value |-> s.config_kv[key][1]]
    ELSE [s |-> SetKv(s, key, default), value |-> default]

\* a row of a table that references users(twitch_id) holds this id
Referenced(s, id) ==
    \/ id \in s.operators
    \/ s.blocked_users[id] # None
    \/ s.last_command_time[id] # None

\* update_user, were the rows that reference a replaced users row deleted
\* with it
UpdateUserCascading(s, id, name) ==
    LET conflicting == { r \in s.users : r.twitch_id = id \/ r.name = name }
        gone == { r.twitch_id : r \in conflicting }
    IN  [ok |-> TRUE,
         s |-> [s EXCEPT !.users = (@ \ conflicting)
                                      \cup {[twitch_id |-> id, name |-> name]},
                         !.operators = @ \ gone,
                         !.blocked_users =
                             [o \in UserIds |-> IF o \in gone THEN None ELSE @[o]],
                         !.last_command_time =
                             [o \in UserIds |-> IF o \in gone THEN None ELSE @[o]]]]

\* update_user: insert or replace deletes every row that holds the id or
\* the name; a build that enforces foreign keys fails the statement when a
\* deleted row's id is still referenced and the new row does not restore it
UpdateUser(s, id, name) ==
    LET conflicting == { r \in s.users : r.twitch_id = id \/ r.name = name }
        orphaned == { r.twitch_id : r \in conflicting } \ {id}
    IN  IF s.foreign_keys /\ \E o \in orphaned : Referenced(s, o)
        THEN [ok |-> FALSE, s |-> s]
        ELSE [ok |-> TRUE,
              s |-> [s EXCEPT !.users = (@ \ conflicting)
                                 \cup {[twitch_id |-> id, name |-> name]}]]

\* test_and_set_cooldown_lapsed, were the time written only when the
\* cooldown has lapsed
TestAndSetCooldownLapsedSettingOnLapse(s, id, cd) ==
    IF s.last_command_time[id] = None \/ s.now >= s.last_command_time[id][1] + cd
    THEN [s |-> [s EXCEPT !.last_command_time[id] = Some(s.now)], lapsed |-> TRUE]
    ELSE [s |-> s, lapsed |-> FALSE]

\* test_and_set_cooldown_lapsed, with the sender's time never compared
TestAndSetCooldownLapsedAlways(s, id, cd) ==
    [s |-> [s EXCEPT !.last_command_time[id] = Some(s.now)], lapsed |-> TRUE]

\* test_and_set_cooldown_lapsed
TestAndSetCooldownLapsed(s, id, cd) ==
    [s |-> [s EXCEPT !.last_command_time[id] = Some(s.now)],
     lapsed |-> IF s.last_command_time[id] = None
                THEN TRUE
                ELSE s.now >= s.last_command_time[id][1] + cd]

\* is_operator
IsOperator(s, id) == id \in s.operators

\* is_blocked, finding nobody blocked
IsBlockedNever(s, id) == [s |-> s, blocked |-> FALSE]

\* is_blocked, were a lapsed block left in the table
IsBlockedKeepingLapsed(s, id) ==
    IF s.blocked_users[id] = None
    THEN [s |-> s, blocked |-> FALSE]
    ELSE IF s.blocked_users[id][1] # None /\ s.blocked_users[id][1][1] <= s.now
         THEN [s |-> s, blocked |-> FALSE]
         ELSE [s |-> s, blocked |-> TRUE]

\* is_blocked: a lapsed block is deleted on the way
IsBlocked(s, id) ==
    IF s.blocked_users[id] = None
    THEN [s |-> s, blocked |-> FALSE]
    ELSE IF s.blocked_users[id][1] # None /\ s.blocked_users[id][1][1] <= s.now
         THEN [s |-> [s EXCEPT !.blocked_users[id] = None], blocked |-> FALSE]
         ELSE [s |-> s, blocked |-> TRUE]

\* get_user_id_from_name
GetUserIdFromName(s, name) ==
    IF \E r \in s.users : r.name = name
    THEN Some((CHOOSE r \in s.users : r.name = name).twitch_id)
    ELSE None

\* block_user
BlockUser(s, name, until) ==
    IF GetUserIdFromName(s, name) # None
    THEN [s |-> [s EXCEPT !.blocked_users[GetUserIdFromName(s, name)[1]] =
                              Some(until)],
          blocked |-> TRUE]
    ELSE [s |-> s, blocked |-> FALSE]

\* unblock_user
UnblockUser(s, name) ==
    IF GetUserIdFromName(s, name) # None
    THEN [s EXCEPT !.blocked_users[GetUserIdFromName(s, name)[1]] = None]
    ELSE s

\* op_user
OpUser(s, name) ==
    IF GetUserIdFromName(s, name) # None
    THEN [s EXCEPT !.operators = @ \cup {GetUserIdFromName(s, name)[1]}]
    ELSE s

\* deop_user
DeopUser(s, name) ==
    IF GetUserIdFromName(s, name) # None
    THEN [s EXCEPT !.operators = @ \ {GetUserIdFromName(s, name)[1]}]
    ELSE s

\* the names a join of users with a set of ids selects, as join(", ") lists
\* them (in the order of NameOrder)
JoinedNames(s, ids) ==
    SelectSeq(NameOrder,
              LAMBDA n : \E r \in s.users : r.name = n /\ r.twitch_id \in ids)

\* list_blocked_users
ListBlockedUsers(s) ==
    JoinedNames(s, { id \in UserIds : s.blocked_users[id] # None })

\* list_op_users
ListOpUsers(s) == JoinedNames(s, s.operators)

(***************************************************************************)
(* command.rs: run_commands.  Each operator gives what one pass of the     *)
(* loop does: the state after it, what it sent on each channel, and        *)
(* whether the loop goes on (ok) or run_commands returns an error.         *)
(***************************************************************************)
Sent(s, gamepad, game_runner, sfx, reply) ==
    [s |-> s, gamepad_tx |-> gamepad, game_runner_tx |-> game_runner,
     sfx_player_tx |-> sfx, reply_tx |-> reply, ok |-> TRUE]

\* a pass of the loop that sends nothing, not even a reply
RepliedNothing(s, reply) == Sent(s, <<>>, <<>>, <<>>, <<>>)

Replied(s, reply) == Sent(s, <<>>, <<>>, <<>>, <<reply>>)

NoPermission == Some(<<"You don't have permission to do that">>)

\* what reaches the sfx player: nothing when sfx_player_tx is None
ToSfxPlayer(requests) == IF SfxPlayerConfigured THEN requests ELSE <<>>

\* the state of run_commands when its loop starts, were a text that does
\* not parse left in the database
StartCommandsLeavingMalformed(db) ==
    LET mode == GetOrSetKv(db, "anarchy_mode", AnarchyToStr("Democracy"))
        s1 == IF AnarchyFromStr(mode.value) # None
              THEN [mode.s EXCEPT !.anarchy_mode = AnarchyFromStr(mode.value)[1]]
              ELSE [mode.s EXCEPT !.anarchy_mode = "Democracy"]
        cd == GetOrSetKv(s1, "cooldown", "0")
        s2 == IF ParseCooldown(cd.value) # None
              THEN [cd.s EXCEPT !.cooldown =
                        DurationMilliseconds(ParseCooldown(cd.value)[1])]
              ELSE [cd.s EXCEPT !.cooldown = 0]
    IN  Sent([s2 EXCEPT !.current_game = None], <<>>, <<>>,
             IF s1.anarchy_mode # "Streaming"
             THEN ToSfxPlayer(<< <<"Enable", FALSE>> >>) ELSE <<>>,
             <<>>)

\* the state of run_commands when its loop starts, over the database db
StartCommands(db) ==
    LET mode == GetOrSetKv(db, "anarchy_mode", AnarchyToStr("Democracy"))
        s1 == IF AnarchyFromStr(mode.value) # None
              THEN [mode.s EXCEPT !.anarchy_mode = AnarchyFromStr(mode.value)[1]]
              ELSE [SetKv(mode.s, "anarchy_mode", AnarchyToStr("Democracy"))
                        EXCEPT !.anarchy_mode = "Democracy"]
        cd == GetOrSetKv(s1, "cooldown", "0")
        s2 == IF ParseCooldown(cd.value) # None
              THEN [cd.s EXCEPT !.cooldown =
                        DurationMilliseconds(ParseCooldown(cd.value)[1])]
              ELSE [SetKv(cd.s, "cooldown", "0") EXCEPT !.cooldown = 0]
    IN  Sent([s2 EXCEPT !.current_game = None], <<>>, <<>>,
             IF s1.anarchy_mode # "Streaming"
             THEN ToSfxPlayer(<< <<"Enable", FALSE>> >>) ELSE <<>>,
             <<>>)

\* the privilege the rest of the loop sees, were the operator table ignored
ElevateNever(s, msg) == msg

\* the privilege the rest of the loop sees
Elevate(s, msg) ==
    IF msg.privilege < Operator /\ IsOperator(s, msg.sender_id)
    THEN [msg EXCEPT !.privilege = Operator]
    ELSE msg

\* the SetAnarchyMode arm, were the sfx player not told of a mode that
\* leaves Streaming
SetAnarchyModeArmKeepingSfx(s, msg) ==
    IF msg.privilege >= Moderator
    THEN LET am == msg.command.mode
             s1 == [SetKv(s, "anarchy_mode", AnarchyToStr(am))
                        EXCEPT !.anarchy_mode = am]
         IN  Sent(IF am = "Streaming" THEN [s1 EXCEPT !.current_game = None]
                  ELSE s1,
                  <<>>,
                  IF am = "Streaming" THEN << <<"Stop">> >> ELSE <<>>,
                  ToSfxPlayer(IF am = "Streaming"
                              THEN << <<"Enable", TRUE>> >> ELSE <<>>),
                  << Some(<<"Set mode to", AnarchyToStr(am)>>) >>)
    ELSE Replied(s, NoPermission)

SetAnarchyModeArm(s, msg) ==
    IF msg.privilege >= Moderator
    THEN LET am == msg.command.mode
             s1 == [SetKv(s, "anarchy_mode", AnarchyToStr(am))
                        EXCEPT !.anarchy_mode = am]
         IN  Sent(IF am = "Streaming" THEN [s1 EXCEPT !.current_game = None]
                  ELSE s1,
                  <<>>,
                  IF am = "Streaming" THEN << <<"Stop">> >> ELSE <<>>,
                  ToSfxPlayer(
                      (IF s.anarchy_mode = "Streaming" /\ am # "Streaming"
                       THEN << <<"Enable", FALSE>> >> ELSE <<>>)
                      \o (IF am = "Streaming"
                          THEN << <<"Enable", TRUE>> >> ELSE <<>>)),
                  << Some(<<"Set mode to", AnarchyToStr(am)>>) >>)
    ELSE Replied(s, NoPermission)

SetCooldownArm(s, msg) ==
    IF msg.privilege >= Moderator
    THEN Replied([SetKv(s, "cooldown", ToString(NumMilliseconds(msg.command.cd)))
                      EXCEPT !.cooldown = msg.command.cd],
                 Some(<<"Set cooldown to",
                        ToString(NumSeconds(msg.command.cd)), "seconds">>))
    ELSE Replied(s, NoPermission)

\* the Movement arm with the block check made in Anarchy mode too
MovementArmCheckingBlocksInAnarchy(s, msg) ==
    IF /\ s.anarchy_mode # "Restricted"
       /\ s.current_game # None
       /\ IsMovementRestricted(GameCommands[s.current_game[1]],
                               msg.command.packet)
    THEN Replied(s, None)
    ELSE IF s.anarchy_mode = "Streaming"
    THEN Replied(s, None)
    ELSE IF ~IsBlocked(s, msg.sender_id).blocked
    THEN Sent(IsBlocked(s, msg.sender_id).s, <<msg.command.packet>>,
              <<>>, <<>>, <<None>>)
    ELSE Replied(s, None)

MovementArm(s, msg) ==
    IF /\ s.anarchy_mode # "Restricted"
       /\ s.current_game # None
       /\ IsMovementRestricted(GameCommands[s.current_game[1]],
                               msg.command.packet)
    THEN Replied(s, None)
    ELSE IF s.anarchy_mode = "Streaming"
    THEN Replied(s, None)
    ELSE IF s.anarchy_mode = "Anarchy"
    THEN Sent(s, <<msg.command.packet>>, <<>>, <<>>, <<None>>)
    ELSE IF ~IsBlocked(s, msg.sender_id).blocked
    THEN Sent(IsBlocked(s, msg.sender_id).s, <<msg.command.packet>>,
              <<>>, <<>>, <<None>>)
    ELSE Replied(s, None)

AddOperatorArm(s, msg) ==
    IF msg.privilege >= Moderator
    THEN Replied(OpUser(s, msg.command.user),
                 Some(<<"Added", msg.command.user, "as operator">>))
    ELSE Replied(s, NoPermission)

RemoveOperatorArm(s, msg) ==
    IF msg.privilege >= Moderator
    THEN Replied(DeopUser(s, msg.command.user),
                 Some(<<"Removed", msg.command.user, "as operator">>))
    ELSE Replied(s, NoPermission)

BlockArm(s, msg) ==
    IF msg.privilege >= Moderator
    THEN LET b == BlockUser(s, msg.command.user, msg.command.until)
         IN  Replied(b.s,
                 IF b.blocked
                 THEN Some(<<"Blocked", msg.command.user,
                             IF msg.command.until # None
                             THEN "until " \o ToString(msg.command.until[1])
                             ELSE "forever">>)
                 ELSE Some(<<"Could not find user", msg.command.user,
                             "they probably haven't played">>))
    ELSE Replied(s, NoPermission)

UnblockArm(s, msg) ==
    IF msg.privilege >= Moderator
    THEN Replied(UnblockUser(s, msg.command.user),
                 Some(<<"Unblocked", msg.command.user>>))
    ELSE Replied(s, NoPermission)

\* the Game arm without the Streaming refusal
GameArmInAnyMode(s, msg) ==
    IF msg.privilege >= Moderator
    THEN IF msg.command.game \in DOMAIN GameCommands
         THEN Sent([s EXCEPT !.current_game = Some(msg.command.game)], <<>>,
                   << <<"SwitchTo", GameCommands[msg.command.game].command>> >>,
                   <<>>, <<None>>)
         ELSE Replied(s, Some(<<"No game", msg.command.game, "found">>))
    ELSE Replied(s, NoPermission)

GameArm(s, msg) ==
    IF s.anarchy_mode = "Streaming"
    THEN Replied(s, Some(<<"Cannot start game in streaming mode, change mode first">>))
    ELSE IF msg.privilege >= Moderator
    THEN IF msg.command.game \in DOMAIN GameCommands
         THEN Sent([s EXCEPT !.current_game = Some(msg.command.game)], <<>>,
                   << <<"SwitchTo", GameCommands[msg.command.game].command>> >>,
                   <<>>, <<None>>)
         ELSE Replied(s, Some(<<"No game", msg.command.game, "found">>))
    ELSE Replied(s, NoPermission)

StopArm(s, msg) ==
    IF msg.privilege >= Moderator
    THEN Sent([s EXCEPT !.current_game = None], <<>>, << <<"Stop">> >>, <<>>,
              <<None>>)
    ELSE Replied(s, NoPermission)

PrintHelpArm(s, msg) ==
    Replied(s, Some(
        <<"Move">>
        \o (IF msg.privilege >= Operator
            THEN <<"tp save/load", "tp reset">> ELSE <<>>)
        \o (IF msg.privilege >= Moderator
            THEN <<"tp block/unblock", "tp op/deop", "tp list", "tp game",
                   "tp mode", "tp cooldown">> ELSE <<>>)
        \o (IF msg.privilege >= Broadcaster THEN <<"tp sfx">> ELSE <<>>)))

\* SaveState, LoadState and Reset, open to every sender
StateArmForAnyone(s, msg, second, reply) ==
    Sent(s, <<StatePacket(second)>>, <<>>, <<>>, << Some(<<reply>>) >>)

\* SaveState, LoadState and Reset: second is the button held with Mode
StateArm(s, msg, second, reply) ==
    IF msg.privilege >= Operator
    THEN Sent(s, <<StatePacket(second)>>, <<>>, <<>>, << Some(<<reply>>) >>)
    ELSE Replied(s, NoPermission)

PlaySfxArm(s, msg) ==
    IF msg.privilege >= Broadcaster
    THEN Sent(s, <<>>, <<>>, ToSfxPlayer(<< <<"Named", msg.command.sfx>> >>),
              <<None>>)
    ELSE Replied(s, NoPermission)

ControlsArm(s, msg) ==
    LET game == IF msg.command.game # None
                THEN IF msg.command.game[1] \in DOMAIN GameCommands
                     THEN Some(msg.command.game[1]) ELSE None
                ELSE s.current_game
    IN  Replied(s, Some(
            IF game # None
            THEN IF GameCommands[game[1]].controls_msg # None
                 THEN <<game[1], "controls:",
                        GameCommands[game[1]].controls_msg[1]>>
                 ELSE <<game[1], "has no specific controls">>
            ELSE IF msg.command.game = None
                 THEN <<"No game is being played currently">>
                 ELSE <<"No game of that name found">>))

\* match msg.command
MatchCommand(s, msg) ==
    CASE msg.command.type = "SetAnarchyMode" -> SetAnarchyModeArm(s, msg)
      [] msg.command.type = "PrintAnarchyMode" ->
            Replied(s, Some(<<"Current mode is", AnarchyToStr(s.anarchy_mode)>>))
      [] msg.command.type = "SetCooldown" -> SetCooldownArm(s, msg)
      [] msg.command.type = "Movement" -> MovementArm(s, msg)
      [] msg.command.type = "AddOperator" -> AddOperatorArm(s, msg)
      [] msg.command.type = "RemoveOperator" -> RemoveOperatorArm(s, msg)
      [] msg.command.type = "Block" -> BlockArm(s, msg)
      [] msg.command.type = "Unblock" -> UnblockArm(s, msg)
      [] msg.command.type = "Game" -> GameArm(s, msg)
      [] msg.command.type = "Stop" -> StopArm(s, msg)
      [] msg.command.type = "Partial" ->
            Replied(s, Some(<<"Usage:", msg.command.partial>>))
      [] msg.command.type = "ListGames" ->
            Replied(s, Some(<<"game1">>))
      [] msg.command.type = "ListOperators" -> Replied(s, Some(ListOpUsers(s)))
      [] msg.command.type = "ListBlocked" ->
            Replied(s, Some(ListBlockedUsers(s)))
      [] msg.command.type = "PrintHelp" -> PrintHelpArm(s, msg)
      [] msg.command.type = "SaveState" ->
            StateArm(s, msg, "A", "Saved game state")
      [] msg.command.type = "LoadState" ->
            StateArm(s, msg, "B", "Loaded game state")
      [] msg.command.type = "Reset" ->
            StateArm(s, msg, "X", "Reset current game")
      [] msg.command.type = "PlaySfx" -> PlaySfxArm(s, msg)
      [] msg.command.type = "Controls" -> ControlsArm(s, msg)

\* the cooldown gate applies to the message
CooldownGated(s, msg) ==
    /\ msg.privilege < Operator
    /\ s.anarchy_mode = "Democracy"
    /\ s.cooldown # 0

\* the loop body with neither gate
GateAndMatchUngated(s, msg) == MatchCommand(s, msg)

\* the loop body from the elevated message on
GateAndMatch(s, msg) ==
    IF msg.privilege < Operator /\ s.anarchy_mode = "Restricted"
    THEN Replied(s, None)
    ELSE IF CooldownGated(s, msg)
    THEN IF ~TestAndSetCooldownLapsed(s, msg.sender_id, s.cooldown).lapsed
         THEN Replied(TestAndSetCooldownLapsed(s, msg.sender_id, s.cooldown).s,
                      None)
         ELSE MatchCommand(
                  TestAndSetCooldownLapsed(s, msg.sender_id, s.cooldown).s, msg)
    ELSE MatchCommand(s, msg)

\* one pass of the loop of run_commands over the received message
RunCommand(s, msg) ==
    IF ~UpdateUser(s, msg.sender_id, msg.sender_name).ok
    THEN [Sent(s, <<>>, <<>>, <<>>, <<>>) EXCEPT !.ok = FALSE]
    ELSE GateAndMatch(UpdateUser(s, msg.sender_id, msg.sender_name).s,
                      Elevate(UpdateUser(s, msg.sender_id, msg.sender_name).s,
                              msg))

(***************************************************************************)
(* The arbiter's steps.                                                    *)
(***************************************************************************)
ArbiterState ==
    [anarchy_mode |-> anarchy_mode, cooldown |-> cooldown,
     current_game |-> current_game, users |-> users, operators |-> operators,
     blocked_users |-> blocked_users, last_command_time |-> last_command_time,
     config_kv |-> config_kv, now |-> now, foreign_keys |-> foreign_keys]

SetArbiterState(s) ==
    /\ anarchy_mode' = s.anarchy_mode
    /\ cooldown' = s.cooldown
    /\ current_game' = s.current_game
    /\ users' = s.users
    /\ operators' = s.operators
    /\ blocked_users' = s.blocked_users
    /\ last_command_time' = s.last_command_time
    /\ config_kv' = s.config_kv

\* a database with its tables just created, the locals not yet assigned
FreshDatabase(fk) ==
    [anarchy_mode |-> "Democracy", cooldown |-> 0, current_game |-> None,
     users |-> {}, operators |-> {},
     blocked_users |-> [id \in UserIds |-> None],
     last_command_time |-> [id \in UserIds |-> None],
     config_kv |-> [k \in {"anarchy_mode", "cooldown"} |-> None],
     now |-> 0, foreign_keys |-> fk]

\* the message is a Movement command of a sender below Operator, forwarded
\* through the cooldown gate
CooledMove(msg, r) ==
    /\ r.ok
    /\ r.gamepad_tx # <<>>
    /\ CooldownGated(ArbiterState, Elevate(ArbiterState, msg))

LastTwo(seq) == IF Len(seq) > 2 THEN Tail(seq) ELSE seq

\* rx.recv() yields Some(msg): one pass of the loop
Handle(msg) ==
    /\ running
    /\ \E r \in {RunCommand(ArbiterState, msg)} :
          /\ SetArbiterState(r.s)
          /\ forwarded' = [sender_id |-> Some(msg.sender_id),
                            packets |-> r.gamepad_tx]
          /\ running' = r.ok
          /\ cooled_moves' =
                IF msg.command.type # "Movement"
                THEN cooled_moves
                ELSE [cooled_moves EXCEPT ![msg.sender_id] =
                        IF CooledMove(msg, r)
                        THEN LastTwo(Append(@, [time |-> now,
                                                cooldown |-> cooldown]))
                        ELSE <<>>]
    /\ UNCHANGED << now, foreign_keys, found >>
    /\ UNCHANGED << schedVars, sideVars >>

\* time passes
ClockTick ==
    /\ now < MaxTime
    /\ now' = now + 1
    /\ UNCHANGED << anarchy_mode, cooldown, current_game, users, operators,
                    blocked_users, last_command_time, config_kv, foreign_keys,
                    running, forwarded, cooled_moves, found >>
    /\ UNCHANGED << schedVars, sideVars >>

ArbInit ==
    /\ foreign_keys \in BOOLEAN
    /\ now = 0
    /\ running = TRUE
    /\ \E r \in {StartCommands(FreshDatabase(foreign_keys))} :
          /\ anarchy_mode = r.s.anarchy_mode
          /\ cooldown = r.s.cooldown
          /\ current_game = r.s.current_game
          /\ users = r.s.users
          /\ operators = r.s.operators
          /\ blocked_users = r.s.blocked_users
          /\ last_command_time = r.s.last_command_time
          /\ config_kv = r.s.config_kv
          /\ forwarded = [sender_id |-> None, packets |-> r.gamepad_tx]
    /\ cooled_moves = [id \in UserIds |-> <<>>]
    /\ found = Some(FreshDatabase(foreign_keys).config_kv)

ArbNext ==
    \/ \E msg \in Messages : Handle(msg)
    \/ ClockTick

\* the scheduler's runs leave the database alone: one build stands for both
Init == SchedInit /\ ArbInit /\ ~foreign_keys /\ SideInit

Next == SchedNext

Spec == Init /\ [][Next]_vars

\* the scheduler with the interval firing for ever: select! takes the tick
\* branch whenever it is the only one ready, and it is ready every 100 ms
LiveNext ==
    \/ \E packet \in ForwardablePackets :
           Len(received) < MaxLivePackets /\ Receive(packet)
    \/ ChannelClosed
    \/ Tick

LiveSpec == Init /\ [][LiveNext]_vars /\ WF_vars(Tick)

\* the arbiter handling messages as the clock runs
ArbSpecInit == SchedInit /\ ArbInit /\ SideInit

ArbSpec == ArbSpecInit /\ [][ArbNext]_vars

(***************************************************************************)
(* The gamepad trace.                                                      *)
(***************************************************************************)
Directional == {"Up", "Down", "Left", "Right", "Start", "Select"}

IsPress(i, m) == actions[i].type = "press" /\ actions[i].m = m

IsRelease(i, m) == actions[i].type = "release" /\ actions[i].m = m

\* the events the processing of packet q made
EventsBy(q) == { i \in DOMAIN actions : actions[i].by = q }

PressesBy(q) == { i \in EventsBy(q) : actions[i].type = "press" }

SetMin(S) == CHOOSE x \in S : \A y \in S : x <= y

SetMax(S) == CHOOSE x \in S : \A y \in S : x >= y

MovementSet(packet) == { packet.movements[i] : i \in 1..Len(packet.movements) }

\* the first press of m after position i, or the end of the trace
NextPress(i, m) ==
    LET later == { j \in (i + 1)..Len(actions) : IsPress(j, m) }
    IN  IF later = {} THEN Len(actions) + 1 ELSE SetMin(later)

\* C1: the gamepad trace never presses a button that is already held:
\* between any two press(m) events of the same button there is a release(m).
NoDoublePress ==
    \A j \in DOMAIN actions : \A i \in 1..(j - 1) :
        (actions[j].type = "press" /\ IsPress(i, actions[j].m))
            => \E k \in (i + 1)..(j - 1) : IsRelease(k, actions[j].m)

\* C2: once the scheduler has returned, every movement m of every
\* non-blocking packet it received has exactly one press(m) of that packet in
\* the trace and exactly one release(m) after it, before m is pressed again.
EachMovementPressedAndReleasedOnce ==
    done =>
        \A q \in DOMAIN received :
            LET packet == received[q].packet
            IN  ~packet.blocking =>
                    \A m \in MovementSet(packet) :
                        LET presses == { i \in PressesBy(q) : actions[i].m = m }
                        IN  /\ Cardinality(presses) = 1
                            /\ \A i \in presses :
                                   Cardinality({ k \in (i + 1)..(NextPress(i, m) - 1) :
                                                   IsRelease(k, m) }) = 1

\* C3: the events of a blocking packet are one contiguous block of the trace
\* that starts with a press, ends with a release and releases what it pressed:
\* no event of a tick or of another packet lies between its first press and
\* its last release.
BlockingPacketIsContiguous ==
    \A b \in DOMAIN received :
        (received[b].packet.blocking /\ EventsBy(b) # {}) =>
            LET lo == SetMin(EventsBy(b))
                hi == SetMax(EventsBy(b))
            IN  /\ EventsBy(b) = lo..hi
                /\ actions[lo].type = "press"
                /\ actions[hi].type = "release"
                /\ \A m \in Movement :
                       Cardinality({ i \in lo..hi : IsPress(i, m) })
                           = Cardinality({ i \in lo..hi : IsRelease(i, m) })

\* a blocking packet has run with events of other packets before and after it
BlockingRanBetweenOthers ==
    \E b \in DOMAIN received :
        /\ received[b].packet.blocking
        /\ EventsBy(b) # {}
        /\ SetMin(EventsBy(b)) > 1
        /\ SetMax(EventsBy(b)) < Len(actions)

\* C4: a non-blocking packet q with a directional movement that arrives while
\* a directional button d (any of the six) is active has a release(d) after
\* its arrival and strictly before its first press.
DirectionalArrivalReleasesActive ==
    \A q \in DOMAIN received :
        LET packet == received[q].packet
        IN  (~packet.blocking /\ ContainsDirection(packet)) =>
                \A d \in received[q].active \cap Directional :
                    \A j \in PressesBy(q) :
                        \E k \in (received[q].at + 1)..(j - 1) : IsRelease(k, d)

\* the events a step appends to the trace
NewEvents == (Len(actions) + 1)..Len(actions')

\* a directional, non-blocking packet's processing touched m in this step,
\* and m is directional or one of the packet's own movements
TouchedByDirectional(m) ==
    \E k \in NewEvents :
        /\ actions'[k].m = m
        /\ actions'[k].by # 0
        /\ LET packet == received'[actions'[k].by].packet
           IN  /\ ~packet.blocking
               /\ ContainsDirection(packet)
               /\ m \in Directional \cup MovementSet(packet)

\* C5: preemption touches nothing else.  In every step, a release a packet
\* causes is either a blocking packet's own release or the release, by a
\* directional packet, of a directional button or of a button in its own
\* list; and an active button whose remaining time changes either lost one
\* tick of it or was touched by such a directional packet.
PreemptionFrameStep ==
    /\ \A k \in NewEvents :
           (actions'[k].type = "release" /\ actions'[k].by # 0) =>
               LET packet == received'[actions'[k].by].packet
               IN  \/ packet.blocking /\ actions'[k].m \in MovementSet(packet)
                   \/ /\ ContainsDirection(packet)
                      /\ actions'[k].m \in Directional \cup MovementSet(packet)
    /\ \A m \in Movement :
           (movement_time_remaining[m] > 0
                /\ movement_time_remaining'[m] # movement_time_remaining[m]) =>
               \/ /\ received' = received
                  /\ movement_time_remaining'[m]
                         = SaturatingSub(movement_time_remaining[m], UpdateIntervalMs)
               \/ TouchedByDirectional(m)

PreemptionTouchesNothingElse == [][PreemptionFrameStep]_vars

\* a directional packet has just released a button while a button that is
\* neither directional nor in its list is still running
PreemptedBesideRunningButton ==
    /\ actions # <<>>
    /\ LET e == actions[Len(actions)]
       IN  /\ e.type = "release"
           /\ e.by # 0
           /\ ~received[e.by].packet.blocking
           /\ \E m \in Movement \ (Directional \cup MovementSet(received[e.by].packet)) :
                  movement_time_remaining[m] > 0

\* a received packet that is neither blocking nor directional
IsPlain(q) ==
    /\ ~received[q].packet.blocking
    /\ ~ContainsDirection(received[q].packet)

\* C6: of two non-blocking, non-directional packets the one received first
\* is pressed first.
PlainPacketsPressedInOrder ==
    \A p1 \in DOMAIN received : \A p2 \in DOMAIN received :
        (p1 < p2 /\ IsPlain(p1) /\ IsPlain(p2) /\ PressesBy(p2) # {}) =>
            /\ PressesBy(p1) # {}
            /\ SetMin(PressesBy(p1)) < SetMin(PressesBy(p2))

\* two plain packets on different buttons were both pressed, the second
\* after events that followed its arrival (it had waited in the queue)
PlainPacketWaitedItsTurn ==
    \E p1 \in DOMAIN received : \E p2 \in DOMAIN received :
        /\ p1 < p2 /\ IsPlain(p1) /\ IsPlain(p2)
        /\ received[p1].packet.movements # received[p2].packet.movements
        /\ PressesBy(p1) # {} /\ PressesBy(p2) # {}
        /\ SetMin(PressesBy(p1)) > received[p2].at

\* C7: a blocking packet with movements m1..mn makes exactly the events
\* press(m1), ..., press(mn), release(mn), ..., release(m1), in that order.
BlockingPressesThenReversedReleases ==
    \A b \in DOMAIN received :
        (received[b].packet.blocking /\ EventsBy(b) # {}) =>
            LET ms == received[b].packet.movements
                n == Len(ms)
                lo == SetMin(EventsBy(b))
            IN  /\ EventsBy(b) = lo..(lo + 2 * n - 1)
                /\ \A k \in 1..n :
                       /\ IsPress(lo + k - 1, ms[k])
                       /\ IsRelease(lo + n + k - 1, ms[n - k + 1])

\* a blocking packet that had to wait in the queue has run
QueuedBlockingPacketRan ==
    \E b \in DOMAIN received :
        /\ received[b].packet.blocking
        /\ EventsBy(b) # {}
        /\ SetMin(EventsBy(b)) > received[b].at + 1

\* C8: once the upstream channel has closed, and with ticks firing, the
\* scheduler loop returns.
DrainingLeadsToReturn == draining ~> done

\* the loop has returned after pressing packets from the queue
ReturnedAfterDrainingQueue ==
    /\ done
    /\ \E q \in DOMAIN received :
           /\ PressesBy(q) # {}
           /\ SetMin(PressesBy(q)) > received[q].at + 1

(***************************************************************************)
(* The arbiter's gates.                                                    *)
(***************************************************************************)
\* C9: under Democracy with a cooldown c > 0, when two consecutive Movement
\* commands of a sender below Operator, at times t1 < t2, are both
\* forwarded to the scheduler, then t2 >= t1 + c, whatever was handled in
\* between
CooldownSpacesForwardedMoves ==
    \A id \in UserIds :
        (/\ Len(cooled_moves[id]) = 2
         /\ cooled_moves[id][1].time < cooled_moves[id][2].time)
        => cooled_moves[id][2].time
              >= cooled_moves[id][1].time + cooled_moves[id][2].cooldown

\* a sender had two Movement commands in a row forwarded through the
\* cooldown gate, at different times
TwoMovesForwardedACooldownApart ==
    \E id \in UserIds :
        /\ Len(cooled_moves[id]) = 2
        /\ cooled_moves[id][1].time < cooled_moves[id][2].time

StateCommandButton ==
    [t \in {"SaveState", "LoadState", "Reset"} |->
        CASE t = "SaveState" -> "A" [] t = "LoadState" -> "B" [] t = "Reset" -> "X"]

\* C10: a message asserted Standard whose sender's id is in the operator
\* list is handled exactly as the same message asserted Operator: neither
\* the Restricted gate nor the cooldown gate applies to it, and SaveState,
\* LoadState and Reset forward their packet; a sender whose id is not in
\* the list (any more) is handled as Standard: SaveState, LoadState and
\* Reset forward nothing
OperatorListedHandledAsOperator ==
    running =>
    \A c \in Commands, u \in Senders :
        \E asserted \in {[Message(c, u) EXCEPT !.privilege = Standard]} :
        \E r \in {RunCommand(ArbiterState, asserted)} :
            IF u.sender_id \in operators
            THEN /\ r = RunCommand(ArbiterState,
                                   [asserted EXCEPT !.privilege = Operator])
                 /\ r.s.last_command_time = last_command_time
                 /\ c.type # "Movement" => r.reply_tx # <<None>>
                 /\ (/\ c.type = "Movement"
                     /\ anarchy_mode = "Restricted"
                     /\ ~IsBlocked(ArbiterState, u.sender_id).blocked)
                    => r.gamepad_tx = <<c.packet>>
                 /\ c.type \in DOMAIN StateCommandButton
                    => r.gamepad_tx = <<StatePacket(StateCommandButton[c.type])>>
            ELSE c.type \in DOMAIN StateCommandButton
                    => /\ r.gamepad_tx = <<>>
                       /\ r.reply_tx \in {<<None>>, <<NoPermission>>}

\* in Restricted mode, with a cooldown set, the viewer (whom the transport
\* asserts Standard) is in the operator list and their SaveState has just
\* been forwarded
ListedViewerSavedStateInRestricted ==
    /\ anarchy_mode = "Restricted"
    /\ cooldown > 0
    /\ \E u \in Senders :
          /\ u.privilege = Standard
          /\ u.sender_id \in operators
          /\ forwarded = [sender_id |-> Some(u.sender_id),
                          packets |-> <<StatePacket("A")>>]

\* one pass of the loop, the history of cooled moves left unrecorded
Dispatch(msg) ==
    /\ running
    /\ \E r \in {RunCommand(ArbiterState, msg)} :
          /\ SetArbiterState(r.s)
          /\ forwarded' = [sender_id |-> Some(msg.sender_id),
                            packets |-> r.gamepad_tx]
          /\ running' = r.ok
    /\ UNCHANGED << now, foreign_keys, cooled_moves, found >>
    /\ UNCHANGED << schedVars, sideVars >>

DispatchNext ==
    \/ \E msg \in Messages : Dispatch(msg)
    \/ ClockTick

\* the arbiter without the history of cooled moves.  No sender of Senders
\* ever changes name, so update_user replaces no row but the sender's own
\* and the build's foreign_keys setting plays no part: one build stands
\* for both
DispatchSpec == Init /\ [][DispatchNext]_vars

(***************************************************************************)
(* The arbiter's modes.  A message is tried in the current state under any *)
(* privilege the transport could assert for its sender.                    *)
(***************************************************************************)
AllPrivileges == {Standard, Operator, Moderator, Broadcaster}

Asserting(c, u, p) == [Message(c, u) EXCEPT !.privilege = p]

\* C11: in Restricted mode a message whose sender's effective privilege is
\* below Operator is answered None, puts nothing on the scheduler's, the
\* game runner's or the sfx player's channel, and changes nothing of the
\* arbiter's state but the users table
RestrictedAnswersNoneAndChangesNothing ==
    (running /\ anarchy_mode = "Restricted") =>
    \A c \in Commands, u \in Senders, p \in AllPrivileges :
        Elevate(ArbiterState, Asserting(c, u, p)).privilege < Operator =>
        \E r \in {RunCommand(ArbiterState, Asserting(c, u, p))} :
            /\ r.ok
            /\ r.reply_tx = <<None>>
            /\ r.gamepad_tx = <<>>
            /\ r.game_runner_tx = <<>>
            /\ r.sfx_player_tx = <<>>
            /\ r.s = [ArbiterState EXCEPT !.users = r.s.users]

\* in Restricted mode a message of a sender below Operator has just been
\* handled
RestrictedViewerJustAnswered ==
    /\ anarchy_mode = "Restricted"
    /\ \E u \in Senders :
          /\ u.privilege < Operator
          /\ u.sender_id \notin operators
          /\ forwarded = [sender_id |-> Some(u.sender_id), packets |-> <<>>]

\* the current game declares an input of the packet restricted
RestrictedByGame(packet) ==
    /\ current_game # None
    /\ \E i \in DOMAIN packet.movements :
          packet.movements[i] \in GameCommands[current_game[1]].restricted_inputs

\* C12: in Anarchy mode a Movement of any sender, under any privilege, whose
\* packet holds no input the current game restricts is forwarded to the
\* scheduler whatever the sender's block record and the cooldown; handling
\* a Movement changes neither the block records nor the last-command times
AnarchyForwardsEveryMovement ==
    (running /\ anarchy_mode = "Anarchy") =>
    \A c \in MovementCommands, u \in Senders, p \in AllPrivileges :
        \E r \in {RunCommand(ArbiterState, Asserting(c, u, p))} :
            /\ ~RestrictedByGame(c.packet) => r.gamepad_tx = <<c.packet>>
            /\ r.s.blocked_users = blocked_users
            /\ r.s.last_command_time = last_command_time

\* in Anarchy mode, with a cooldown set, a Movement of a sender below
\* Operator who is blocked and whose last command was at this very instant
\* has just been forwarded
BlockedViewerMovedInAnarchy ==
    /\ anarchy_mode = "Anarchy"
    /\ cooldown > 0
    /\ \E u \in Senders :
          /\ u.privilege < Operator
          /\ u.sender_id \notin operators
          /\ blocked_users[u.sender_id] = Some(None)
          /\ last_command_time[u.sender_id] = Some(now)
          /\ forwarded.sender_id = Some(u.sender_id)
          /\ forwarded.packets # <<>>
          /\ forwarded.packets[1] \in ParsedPackets

\* the sender's block record is indefinite or not yet lapsed
HoldsBlock(id) ==
    /\ blocked_users[id] # None
    /\ blocked_users[id][1] # None => blocked_users[id][1][1] > now

\* in state s nothing but a block record could stop the Movement msg
OnlyABlockCouldStop(s, msg) ==
    /\ s.anarchy_mode # "Streaming"
    /\ ~(/\ s.anarchy_mode # "Restricted"
         /\ s.current_game # None
         /\ IsMovementRestricted(GameCommands[s.current_game[1]],
                                 msg.command.packet))
    /\ \/ Elevate(s, msg).privilege >= Operator
       \/ s.anarchy_mode = "Anarchy"
       \/ /\ s.anarchy_mode = "Democracy"
          /\ \/ s.cooldown = 0
             \/ s.last_command_time[msg.sender_id] = None
             \/ s.now >= s.last_command_time[msg.sender_id][1] + s.cooldown

\* C13: in every mode but Anarchy a Movement of a sender who holds a block
\* that is indefinite or not yet lapsed is not forwarded, under any
\* privilege; and once a Moderator+ Unblock names that sender, the sender's
\* next Movement is forwarded whenever nothing but a block could stop it
BlockedSenderNeverForwarded ==
    running =>
    /\ anarchy_mode # "Anarchy" =>
          \A c \in MovementCommands, u \in Senders, p \in AllPrivileges :
              HoldsBlock(u.sender_id) =>
                  RunCommand(ArbiterState, Asserting(c, u, p)).gamepad_tx = <<>>
    /\ \A u \in Senders, v \in Senders, p \in {Moderator, Broadcaster} :
          [twitch_id |-> u.sender_id, name |-> u.sender_name] \in users =>
          \E s1 \in {RunCommand(ArbiterState,
                         Asserting([type |-> "Unblock", user |-> u.sender_name],
                                   v, p)).s} :
          \A c \in MovementCommands, q \in AllPrivileges :
              OnlyABlockCouldStop(s1, Asserting(c, u, q)) =>
                  RunCommand(s1, Asserting(c, u, q)).gamepad_tx = <<c.packet>>

\* under Democracy a sender with an indefinite block has just had a message
\* handled with nothing forwarded, and the block is all that stops that
\* sender's Movements
BlockAloneStopsViewer ==
    /\ anarchy_mode = "Democracy"
    /\ \E u \in Senders :
          /\ blocked_users[u.sender_id] = Some(None)
          /\ forwarded = [sender_id |-> Some(u.sender_id), packets |-> <<>>]
          /\ \A c \in MovementCommands :
                /\ RunCommand(ArbiterState, Message(c, u)).gamepad_tx = <<>>
                /\ RunCommand([ArbiterState EXCEPT
                                  !.blocked_users[u.sender_id] = None],
                              Message(c, u)).gamepad_tx = <<c.packet>>

\* C14: while the mode is Streaming no message puts a packet on the
\* scheduler's channel, be it a Movement, SaveState, LoadState or Reset,
\* whatever the sender's privilege
StreamingForwardsNothing ==
    anarchy_mode = "Streaming" => forwarded.packets = <<>>

StreamingRefusal ==
    Some(<<"Cannot start game in streaming mode, change mode first">>)

\* C15: whenever the mode is Streaming the current game is none; the
\* SetAnarchyMode that enters Streaming clears the current game and sends
\* the game runner exactly Stop; while in Streaming the only game-runner
\* command any message sends is Stop, and Game(name) is answered with the
\* refusal, sends no SwitchTo and sets no game, under any privilege
StreamingHasNoGame ==
    /\ anarchy_mode = "Streaming" => current_game = None
    /\ (running /\ anarchy_mode = "Streaming") =>
          \A c \in Commands, u \in Senders, p \in AllPrivileges :
              \E r \in {RunCommand(ArbiterState, Asserting(c, u, p))} :
                  /\ \A i \in DOMAIN r.game_runner_tx :
                        r.game_runner_tx[i] = <<"Stop">>
                  /\ r.s.current_game = None
                  /\ c.type = "Game" =>
                        /\ r.reply_tx = <<StreamingRefusal>>
                        /\ r.game_runner_tx = <<>>
    /\ (running /\ anarchy_mode # "Streaming") =>
          \A c \in ModerationCommands, u \in Senders, p \in AllPrivileges :
              \E r \in {RunCommand(ArbiterState, Asserting(c, u, p))} :
                  r.s.anarchy_mode = "Streaming" =>
                      /\ r.game_runner_tx = << <<"Stop">> >>
                      /\ r.s.current_game = None

\* the mode is Streaming, a moderator's message has just been handled, and
\* the moderator's Game for a configured game would be refused
ModeratorRefusedAGameInStreaming ==
    /\ anarchy_mode = "Streaming"
    /\ current_game = None
    /\ \E u \in Senders, g \in DOMAIN GameCommands :
          /\ u.privilege >= Moderator
          /\ forwarded.sender_id = Some(u.sender_id)
          /\ RunCommand(ArbiterState,
                        Message([type |-> "Game", game |-> g], u)).reply_tx
                 = <<StreamingRefusal>>

\* the rule of game-restricted inputs.  Outside Restricted mode a Movement
\* holding an input the current game restricts is not forwarded, under any
\* privilege; in Restricted mode it is forwarded for a sender of effective
\* privilege Operator or more (who holds no block, when unblocked_only);
\* and after a Moderator+ Stop a Movement that nothing but a block could
\* stop is forwarded to a sender who holds no block
RestrictedInputRule(unblocked_only) ==
    running =>
    /\ \A c \in MovementCommands, u \in Senders, p \in AllPrivileges :
          /\ (RestrictedByGame(c.packet) /\ anarchy_mode # "Restricted") =>
                RunCommand(ArbiterState, Asserting(c, u, p)).gamepad_tx = <<>>
          /\ (/\ RestrictedByGame(c.packet)
              /\ anarchy_mode = "Restricted"
              /\ Elevate(ArbiterState, Asserting(c, u, p)).privilege >= Operator
              /\ unblocked_only => ~HoldsBlock(u.sender_id)) =>
                RunCommand(ArbiterState, Asserting(c, u, p)).gamepad_tx
                    = <<c.packet>>
    /\ \A v \in Senders, q \in {Moderator, Broadcaster} :
          \E s1 \in {RunCommand(ArbiterState,
                         Asserting([type |-> "Stop"], v, q)).s} :
              /\ s1.current_game = None
              /\ \A c \in MovementCommands, u \in Senders, p \in AllPrivileges :
                    (OnlyABlockCouldStop(s1, Asserting(c, u, p))
                     /\ ~HoldsBlock(u.sender_id)) =>
                        RunCommand(s1, Asserting(c, u, p)).gamepad_tx
                            = <<c.packet>>

\* C16 as stated: in Restricted mode the restricted packet of an Operator+
\* sender is forwarded, whoever the sender
RestrictedInputsForwardedToOperatorsInRestricted == RestrictedInputRule(FALSE)

\* C16 amended: in Restricted mode the restricted packet of an Operator+
\* sender is forwarded unless the sender holds a block that is indefinite
\* or not yet lapsed
RestrictedInputsForwardedToUnblockedOperators == RestrictedInputRule(TRUE)

\* in Restricted mode, with a game current, a packet holding an input the
\* game restricts has just been forwarded
RestrictedInputForwardedInRestricted ==
    /\ anarchy_mode = "Restricted"
    /\ current_game # None
    /\ forwarded.sender_id # None
    /\ forwarded.packets # <<>>
    /\ forwarded.packets[1] \in ParsedPackets
    /\ RestrictedByGame(forwarded.packets[1])

\* the least privilege the command's arm accepts
Threshold(c) ==
    IF c.type = "PlaySfx" THEN Broadcaster ELSE Moderator

\* the commands whose arm tests the privilege against Moderator or Broadcaster
PrivilegedCommands ==
    ModerationCommands \cup { c \in OtherCommands : c.type = "PlaySfx" }

\* the message is stopped neither by the Restricted gate nor by the cooldown
PassesGates(msg) ==
    \E m \in {Elevate(ArbiterState, msg)} :
        /\ ~(m.privilege < Operator /\ anarchy_mode = "Restricted")
        /\ CooldownGated(ArbiterState, m) =>
              (last_command_time[m.sender_id] # None =>
                  now >= last_command_time[m.sender_id][1] + cooldown)

\* C17: a privileged command whose sender's effective privilege is below the
\* command's threshold leaves mode, cooldown, block records, operators and
\* current game as they were, in memory and in the store, sends nothing to
\* the scheduler, the game runner or the sfx player, and, when the message
\* passed the gates, is answered 'You don't have permission to do that'
DeniedCommandChangesNothing ==
    running =>
    \A c \in PrivilegedCommands, u \in Senders, p \in AllPrivileges :
        Elevate(ArbiterState, Asserting(c, u, p)).privilege < Threshold(c) =>
        \E r \in {RunCommand(ArbiterState, Asserting(c, u, p))} :
            /\ r.s.anarchy_mode = anarchy_mode
            /\ r.s.cooldown = cooldown
            /\ r.s.current_game = current_game
            /\ r.s.blocked_users = blocked_users
            /\ r.s.operators = operators
            /\ r.s.config_kv = config_kv
            /\ r.gamepad_tx = <<>>
            /\ r.game_runner_tx = <<>>
            /\ r.sfx_player_tx = <<>>
            /\ PassesGates(Asserting(c, u, p)) => r.reply_tx = <<NoPermission>>

\* the packet the claim names for a state command
StatePacketOf(type) ==
    [movements |-> <<"Mode", CASE type = "SaveState" -> "A"
                               [] type = "LoadState" -> "B"
                               [] type = "Reset" -> "X">>,
     duration |-> 100, stagger |-> 100, blocking |-> TRUE]

StateCommands ==
    { c \in OtherCommands : c.type \in {"SaveState", "LoadState", "Reset"} }

\* C18: SaveState, LoadState and Reset from a sender of effective privilege
\* Operator or more each forward exactly one packet, blocking, of stagger 100
\* and duration 100, holding Mode with A, B and X in turn; from a sender
\* below Operator they forward nothing
StateCommandsForwardOnePacket ==
    running =>
    \A c \in StateCommands, u \in Senders, p \in AllPrivileges :
        RunCommand(ArbiterState, Asserting(c, u, p)).gamepad_tx =
            IF Elevate(ArbiterState, Asserting(c, u, p)).privilege >= Operator
            THEN <<StatePacketOf(c.type)>>
            ELSE <<>>

\* a state command's packet has just been forwarded
StatePacketForwarded ==
    /\ forwarded.sender_id # None
    /\ \E type \in {"SaveState", "LoadState", "Reset"} :
          forwarded.packets = <<StatePacketOf(type)>>

\* C19: every message the arbiter handles, whatever its command, sender,
\* privilege and the mode, is answered with exactly one reply value, a
\* string or None, on every pass of the loop that does not end run_commands
\* with an error
ExactlyOneReply ==
    running =>
    \A c \in Commands, u \in Senders, p \in AllPrivileges :
        \E r \in {RunCommand(ArbiterState, Asserting(c, u, p))} :
            r.ok => Len(r.reply_tx) = 1

\* a message has been handled whose pass of the loop gave one reply, in a
\* mode other than the initial one and with a cooldown set
RepliedOnceUnderCooldown ==
    /\ running
    /\ forwarded.sender_id # None
    /\ cooldown # 0
    /\ anarchy_mode = "Democracy"
    /\ \E c \in Commands, u \in Senders :
          /\ CooldownGated(ArbiterState, Message(c, u))
          /\ Len(RunCommand(ArbiterState, Message(c, u)).reply_tx) = 1

\* C20: the mode and the cooldown in memory are the values stored under
\* 'anarchy_mode' and 'cooldown', and run_commands started again on the
\* same database begins with the same mode and cooldown
RestartRestoresModeAndCooldown ==
    /\ config_kv["anarchy_mode"] = Some(AnarchyToStr(anarchy_mode))
    /\ config_kv["cooldown"] # None
    /\ ParseCooldown(config_kv["cooldown"][1]) # None
    /\ DurationMilliseconds(ParseCooldown(config_kv["cooldown"][1])[1]) = cooldown
    /\ StartCommands(ArbiterState).s.anarchy_mode = anarchy_mode
    /\ StartCommands(ArbiterState).s.cooldown = cooldown

(***************************************************************************)
(* Starting over a database that an earlier run, or another hand, left.    *)
(***************************************************************************)
\* texts found under 'anarchy_mode': the four modes and texts that are none
StoredModeTexts ==
    {"anarchy", "democracy", "restricted", "streaming",
     "invalid", "Anarchy", "stream", ""}

\* texts found under 'cooldown': whole numbers and texts that are none
StoredCooldownTexts ==
    { ToString(n) : n \in StoredMilliseconds } \cup {"invalid", "1.5", "1s", ""}

\* a key is absent or holds one of the texts
Stored(texts) == {None} \cup { Some(text) : text \in texts }

\* run_commands has not started: the database holds some mode and cooldown
RestartInit ==
    /\ SchedInit
    /\ SideInit
    /\ foreign_keys = FALSE
    /\ now = 0
    /\ running = FALSE
    /\ found = None
    /\ forwarded = [sender_id |-> None, packets |-> <<>>]
    /\ cooled_moves = [id \in UserIds |-> <<>>]
    /\ \E am \in Stored(StoredModeTexts), cd \in Stored(StoredCooldownTexts) :
          \E db \in {[FreshDatabase(foreign_keys) EXCEPT
                         !.config_kv = [anarchy_mode |-> am, cooldown |-> cd]]} :
              /\ anarchy_mode = db.anarchy_mode
              /\ cooldown = db.cooldown
              /\ current_game = db.current_game
              /\ users = db.users
              /\ operators = db.operators
              /\ blocked_users = db.blocked_users
              /\ last_command_time = db.last_command_time
              /\ config_kv = db.config_kv

\* run_commands up to its loop
Start ==
    /\ found = None
    /\ \E r \in {StartCommands(ArbiterState)} :
          /\ SetArbiterState(r.s)
          /\ forwarded' = [sender_id |-> None, packets |-> r.gamepad_tx]
          /\ running' = r.ok
    /\ found' = Some(config_kv)
    /\ UNCHANGED << now, foreign_keys, cooled_moves >>
    /\ UNCHANGED << schedVars, sideVars >>

RestartSpec == RestartInit /\ [][Start]_vars

\* the mode a text names, as the specification lists them
ModeNamed ==
    [text \in {"anarchy", "democracy", "restricted", "streaming"} |->
        CASE text = "anarchy" -> "Anarchy"
          [] text = "democracy" -> "Democracy"
          [] text = "restricted" -> "Restricted"
          [] text = "streaming" -> "Streaming"]

\* the text is a whole number of milliseconds
IsNumberText(text) == \E n \in StoredMilliseconds : ToString(n) = text

NumberNamed(text) == CHOOSE n \in StoredMilliseconds : ToString(n) = text

\* C21: once run_commands has started it is running; a key whose stored
\* text could not be parsed holds the default again, in memory and in the
\* store (Democracy, 0); a key whose stored text is valid keeps it, whatever
\* the other key held
MalformedValuesResetToDefaults ==
    found # None =>
    \E am \in {found[1].anarchy_mode}, cd \in {found[1].cooldown} :
        /\ running
        /\ (am # None /\ am[1] \notin DOMAIN ModeNamed) =>
              /\ anarchy_mode = "Democracy"
              /\ config_kv.anarchy_mode = Some("democracy")
        /\ (cd # None /\ ~IsNumberText(cd[1])) =>
              /\ cooldown = 0
              /\ config_kv.cooldown = Some("0")
        /\ (am # None /\ am[1] \in DOMAIN ModeNamed) =>
              /\ anarchy_mode = ModeNamed[am[1]]
              /\ config_kv.anarchy_mode = am
        /\ (cd # None /\ IsNumberText(cd[1])) =>
              /\ cooldown = NumberNamed(cd[1]) * TicksPerMs
              /\ config_kv.cooldown = cd

\* run_commands started over an unparseable cooldown beside a valid mode
\* other than the default
StartedOverMalformedCooldown ==
    /\ found # None
    /\ running
    /\ found[1].anarchy_mode = Some("anarchy")
    /\ found[1].cooldown = Some("invalid")
    /\ anarchy_mode = "Anarchy"

(***************************************************************************)
(* Blocks that lapse.                                                      *)
(***************************************************************************)
\* the id has a block record whose unblock_time has come
HoldsLapsedBlock(id) ==
    /\ blocked_users[id] # None
    /\ blocked_users[id][1] # None
    /\ blocked_users[id][1][1] <= now

\* C22: is_blocked of a user whose block has an unblock_time at or before
\* now answers not blocked and deletes the record, so that the next lookup
\* answers not blocked too; for a block with no unblock_time, or one later
\* than now, it answers blocked and leaves every record in place
LapsedBlockIsDeletedOnLookup ==
    \A id \in UserIds :
        \E r \in {IsBlocked(ArbiterState, id)} :
            /\ HoldsLapsedBlock(id) =>
                  /\ ~r.blocked
                  /\ r.s.blocked_users[id] = None
                  /\ \A other \in UserIds \ {id} :
                        r.s.blocked_users[other] = blocked_users[other]
                  /\ ~IsBlocked(r.s, id).blocked
            /\ HoldsBlock(id) =>
                  /\ r.blocked
                  /\ r.s.blocked_users = blocked_users

\* under Democracy a sender holds a block that has lapsed, that sender's
\* latest message forwarded nothing, and a lookup now deletes the record
LookupMeetsLapsedBlock ==
    /\ anarchy_mode = "Democracy"
    /\ \E id \in UserIds :
          /\ HoldsLapsedBlock(id)
          /\ forwarded = [sender_id |-> Some(id), packets |-> <<>>]
          /\ IsBlocked(ArbiterState, id).s.blocked_users[id] = None

\* C23: the reply to ListBlocked names no user whose block has an
\* unblock_time at or before now
ListBlockedOmitsLapsedBlocks ==
    running =>
    \A u \in Senders, p \in AllPrivileges :
        \E r \in {RunCommand(ArbiterState,
                             Asserting([type |-> "ListBlocked"], u, p))} :
            \A i \in DOMAIN r.reply_tx :
                r.reply_tx[i] # None =>
                    \A row \in users :
                        HoldsLapsedBlock(row.twitch_id) =>
                            \A j \in DOMAIN r.reply_tx[i][1] :
                                r.reply_tx[i][1][j] # row.name

(***************************************************************************)
(* The game supervisor: game_runner.rs game_runner_loop and stop_child.    *)
(* The runtime has one thread (main.rs, flavor current_thread), so what    *)
(* runs between two awaits is one step.  A Child is its pid and whether    *)
(* the handle has seen the exit; pids are handed out in order.             *)
(***************************************************************************)
\* the commands the arbiter sends in one run
MaxGameCommands == 3

\* GameRunner, as the arbiter sends it
GameRunnerCommands == { <<"Stop">>, <<"SwitchTo", "run-game1">> }

\* everything the supervisor leaves alone
beyondSup == << schedVars, arbVars, sfxVars, parseVars >>

\* game_runner_tx.send(cmd) in run_commands
SendGameRunner(cmd) ==
    /\ ~sup_closed
    /\ sup_pc \in {"select", "wait"}
    /\ sent < MaxGameCommands
    /\ sent' = sent + 1
    /\ sup_rx' = Append(sup_rx, cmd)
    /\ UNCHANGED << sup_closed, sup_pc, sup_cmd, current_process,
                    child_pid_atomic, alive, signalled, spawned >>
    /\ UNCHANGED beyondSup

\* run_commands returns and its Sender is dropped
DropSender ==
    /\ ~sup_closed
    /\ sup_closed' = TRUE
    /\ UNCHANGED << sup_rx, sup_pc, sup_cmd, current_process, child_pid_atomic,
                    alive, signalled, spawned, sent >>
    /\ UNCHANGED beyondSup

\* a spawned process exits, on its own or on a signal
ChildExits(pid) ==
    /\ pid \in alive
    /\ alive' = alive \ {pid}
    /\ UNCHANGED << sup_rx, sup_closed, sup_pc, sup_cmd, current_process,
                    child_pid_atomic, signalled, spawned, sent >>
    /\ UNCHANGED beyondSup

\* the panic hook of run_game_runner runs
PanicHook ==
    /\ child_pid_atomic # 0
    /\ child_pid_atomic \notin signalled
    /\ signalled' = signalled \cup {child_pid_atomic}
    /\ UNCHANGED << sup_rx, sup_closed, sup_pc, sup_cmd, current_process,
                    child_pid_atomic, alive, spawned, sent >>
    /\ UNCHANGED beyondSup

\* the arm after stop_child, were the pid of the new child not stored
AfterStopChildNotStoringPid(cmd, child, pid_atomic) ==
    CASE cmd[1] = "Stop" ->
            /\ sup_pc' = "select"
            /\ current_process' = child
            /\ child_pid_atomic' = pid_atomic
            /\ UNCHANGED << alive, spawned >>
      [] cmd[1] = "SwitchTo" ->
            \/ /\ sup_pc' = "select"
               /\ spawned' = spawned + 1
               /\ alive' = alive \cup {spawned + 1}
               /\ child_pid_atomic' = pid_atomic
               /\ current_process' = Some([pid |-> spawned + 1, done |-> FALSE])
            \/ /\ sup_pc' = "failed"
               /\ current_process' = child
               /\ child_pid_atomic' = pid_atomic
               /\ UNCHANGED << alive, spawned >>
      [] cmd[1] = "Closed" ->
            /\ sup_pc' = "returned"
            /\ current_process' = child
            /\ child_pid_atomic' = pid_atomic
            /\ UNCHANGED << alive, spawned >>

\* what follows stop_child in the arm of cmd, the child and the atomic
\* being as stop_child left them
AfterStopChild(cmd, child, pid_atomic) ==
    CASE cmd[1] = "Stop" ->
            /\ sup_pc' = "select"
            /\ current_process' = child
            /\ child_pid_atomic' = pid_atomic
            /\ UNCHANGED << alive, spawned >>
      [] cmd[1] = "SwitchTo" ->
            \/ /\ sup_pc' = "select"
               /\ spawned' = spawned + 1
               /\ alive' = alive \cup {spawned + 1}
               /\ child_pid_atomic' = spawned + 1
               /\ current_process' = Some([pid |-> spawned + 1, done |-> FALSE])
            \/ /\ sup_pc' = "failed"
               /\ current_process' = child
               /\ child_pid_atomic' = pid_atomic
               /\ UNCHANGED << alive, spawned >>
      [] cmd[1] = "Closed" ->
            /\ sup_pc' = "returned"
            /\ current_process' = child
            /\ child_pid_atomic' = pid_atomic
            /\ UNCHANGED << alive, spawned >>

\* stop_child, were the child signalled and not waited for
StopChildWithoutWaiting(cmd) ==
    IF current_process = None
    THEN /\ AfterStopChild(cmd, None, child_pid_atomic)
         /\ UNCHANGED << signalled, sup_cmd >>
    ELSE /\ signalled' = signalled \cup {current_process[1].pid}
         /\ AfterStopChild(cmd, current_process, 0)
         /\ UNCHANGED sup_cmd

\* stop_child up to its first await, then the rest of the arm when there
\* is nothing to wait for.  Child::kill of a handle that has seen the exit
\* is an error in some versions of tokio and Ok in others
StopChild(cmd) ==
    IF current_process = None
    THEN /\ AfterStopChild(cmd, None, child_pid_atomic)
         /\ UNCHANGED << signalled, sup_cmd >>
    ELSE IF ~current_process[1].done
    THEN /\ signalled' = signalled \cup {current_process[1].pid}
         /\ sup_pc' = "wait"
         /\ sup_cmd' = Some(cmd)
         /\ UNCHANGED << current_process, child_pid_atomic, alive, spawned >>
    ELSE \/ /\ sup_pc' = "failed"
            /\ UNCHANGED << signalled, sup_cmd, current_process,
                            child_pid_atomic, alive, spawned >>
         \/ /\ AfterStopChild(cmd, current_process, 0)
            /\ UNCHANGED << signalled, sup_cmd >>

\* rx.recv() yields Some(cmd)
RecvCommand ==
    /\ sup_pc = "select"
    /\ sup_rx # <<>>
    /\ sup_rx' = Tail(sup_rx)
    /\ StopChild(Head(sup_rx))
    /\ UNCHANGED << sup_closed, sent >>
    /\ UNCHANGED beyondSup

\* rx.recv() yields None, were the loop left without stop_child
RecvClosedWithoutStopping ==
    /\ sup_pc = "select"
    /\ sup_rx = <<>>
    /\ sup_closed
    /\ sup_pc' = "returned"
    /\ UNCHANGED << sup_rx, sup_closed, sup_cmd, current_process,
                    child_pid_atomic, alive, signalled, spawned, sent >>
    /\ UNCHANGED beyondSup

\* rx.recv() yields None
RecvClosed ==
    /\ sup_pc = "select"
    /\ sup_rx = <<>>
    /\ sup_closed
    /\ StopChild(<<"Closed">>)
    /\ UNCHANGED << sup_rx, sup_closed, sent >>
    /\ UNCHANGED beyondSup

\* child.wait() in stop_child returns; the atomic is cleared and the arm
\* goes on
WaitReturns ==
    /\ sup_pc = "wait"
    /\ current_process[1].pid \notin alive
    /\ AfterStopChild(sup_cmd[1],
                      Some([current_process[1] EXCEPT !.done = TRUE]), 0)
    /\ sup_cmd' = None
    /\ UNCHANGED << sup_rx, sup_closed, signalled, sent >>
    /\ UNCHANGED beyondSup

\* wait_on_child resolves in the select
ChildExited ==
    /\ sup_pc = "select"
    /\ current_process # None
    /\ current_process[1].done \/ current_process[1].pid \notin alive
    /\ current_process' = None
    /\ UNCHANGED << sup_rx, sup_closed, sup_pc, sup_cmd, child_pid_atomic,
                    alive, signalled, spawned, sent >>
    /\ UNCHANGED beyondSup

SupNext ==
    \/ \E cmd \in GameRunnerCommands : SendGameRunner(cmd)
    \/ DropSender
    \/ \E pid \in alive : ChildExits(pid)
    \/ PanicHook
    \/ RecvCommand
    \/ RecvClosed
    \/ WaitReturns
    \/ ChildExited

SupSpec == Init /\ [][SupNext]_vars

\* C24: at every moment at most one process spawned by the supervisor is
\* running, it is the one current_process holds, and a process is spawned
\* only in a step that starts with none running: the child before it has
\* exited
AtMostOneChildAlive ==
    /\ [](/\ Cardinality(alive) <= 1
          /\ alive # {} => /\ current_process # None
                           /\ alive = {current_process[1].pid})
    /\ [][spawned' # spawned => alive = {}]_vars

\* a second process is running after the first was stopped by SwitchTo
SecondChildRunsAlone ==
    /\ spawned = 2
    /\ alive = {2}
    /\ 1 \in signalled

\* the step is the select's branch for a child that exited on its own
NoticesExit ==
    /\ sup_pc = "select"
    /\ current_process # None
    /\ current_process' = None

\* C25: when the child exits on its own the supervisor sets the atomic to 0
\* and leaves the pending commands as they are; the atomic is non-zero only
\* while the supervisor holds the child whose pid it is
NaturalExitClearsPid ==
    /\ [][NoticesExit => (child_pid_atomic' = 0 /\ sup_rx' = sup_rx)]_vars
    /\ [](child_pid_atomic # 0 =>
            /\ current_process # None
            /\ current_process[1].pid = child_pid_atomic)

\* the supervisor holds a child that is still running
OwnsRunningChild ==
    /\ current_process # None
    /\ current_process[1].pid \in alive

\* the step spawns a child and stores its pid
StoresNewPid ==
    /\ spawned' = spawned + 1
    /\ current_process' = Some([pid |-> spawned', done |-> FALSE])
    /\ child_pid_atomic' = spawned'

\* the step ends a stop_child that waited for the child it signalled
ClearsPidAfterStop ==
    /\ sup_pc = "wait"
    /\ current_process[1].pid \in signalled
    /\ current_process[1].pid \notin alive
    /\ child_pid_atomic' = 0

\* C26: while the supervisor holds a running child the atomic is the pid of
\* that child, which is the pid the panic hook signals; the atomic changes
\* only in a step of the supervisor that spawns, to the pid of the new
\* child, or that ends a stop, to 0
PidAtomicFollowsChild ==
    /\ [](OwnsRunningChild => child_pid_atomic = current_process[1].pid)
    /\ [][PanicHook => signalled' = signalled \cup {child_pid_atomic}]_vars
    /\ [][child_pid_atomic' # child_pid_atomic =>
            StoresNewPid \/ ClearsPidAfterStop]_vars

\* the panic hook has signalled the second child, which is still running
HookSignalledSecondChild ==
    /\ spawned = 2
    /\ OwnsRunningChild
    /\ current_process[1].pid = 2
    /\ sup_pc = "select"
    /\ 2 \in signalled

\* the supervisor task is scheduled whenever it can go on, and a child that
\* was sent SIGTERM exits
SupLiveSpec ==
    /\ SupSpec
    /\ WF_vars(RecvCommand)
    /\ WF_vars(RecvClosed)
    /\ WF_vars(WaitReturns)
    /\ WF_vars(\E pid \in alive \cap signalled : ChildExits(pid))

\* game_runner_loop is over, with Ok or with an error
LoopOver == sup_pc \in {"returned", "failed"}

\* C27: once the command channel is closed the loop comes to its end; it
\* returns Ok only on the closed and drained channel, after stop_child, and
\* no process it spawned is running once it has returned Ok
ClosedChannelStopsChildThenReturns ==
    /\ [](sup_pc = "returned" => alive = {})
    /\ [][(sup_pc' = "returned" /\ sup_pc # "returned") =>
            /\ sup_closed
            /\ sup_rx = <<>>
            /\ current_process # None => current_process[1].pid \in signalled]_vars
    /\ (sup_closed ~> LoopOver)

\* the only command was a SwitchTo and the closing channel stopped its child
ReturnedAfterStoppingChild ==
    /\ sup_pc = "returned"
    /\ sent = 1
    /\ spawned = 1
    /\ current_process = Some([pid |-> 1, done |-> TRUE])
    /\ 1 \in signalled

(***************************************************************************)
(* The sound-effect dispatcher: sound_effect_runner (game_runner.rs), fed  *)
(* by run_commands and by the chat tasks (twitch.rs).                      *)
(***************************************************************************)
\* the requests kept in the unbounded channel at once
MaxSfxQueue == 2

\* the greatest mass_gift_count of a notice
MaxSubCount == 6

SubCounts == 0..MaxSubCount

\* SfxRequest::to_file, were the least threshold not above the count taken
ToFileFromLeastThreshold(effect, cfg) ==
    CASE effect[1] = "SubEvent" ->
            LET upto == { t \in DOMAIN cfg.sub_events : t <= effect[2] }
                least == CHOOSE t \in upto : \A u \in upto : t <= u
            IN  IF upto = {} THEN None
                ELSE IF cfg.sub_events[least] \in DOMAIN cfg.sounds
                THEN Some(cfg.sounds[cfg.sub_events[least]])
                ELSE None
      [] effect[1] = "Named" ->
            IF effect[2] \in DOMAIN cfg.sounds
            THEN Some(cfg.sounds[effect[2]]) ELSE None
      [] OTHER -> None

\* SfxRequest::to_file
ToFile(effect, cfg) ==
    CASE effect[1] = "SubEvent" ->
            LET upto == { t \in DOMAIN cfg.sub_events : t <= effect[2] }
            IN  IF upto = {} THEN None
                ELSE IF cfg.sub_events[SetMax(upto)] \in DOMAIN cfg.sounds
                THEN Some(cfg.sounds[cfg.sub_events[SetMax(upto)]])
                ELSE None
      [] effect[1] = "Named" ->
            IF effect[2] \in DOMAIN cfg.sounds
            THEN Some(cfg.sounds[effect[2]]) ELSE None
      [] OTHER -> None

\* everything the dispatcher and its senders leave alone
beyondSfx == << schedVars, supVars, parseVars >>

\* a pass of the loop of sound_effect_runner
SfxRecv ==
    /\ sfx_rx # <<>>
    /\ sfx_rx' = Tail(sfx_rx)
    /\ last_effect' = Some(Head(sfx_rx))
    /\ \E effect \in {Head(sfx_rx)} :
          IF effect[1] = "Enable"
          THEN /\ is_enabled' = effect[2]
               /\ playing' = None
          ELSE /\ is_enabled' = is_enabled
               /\ playing' = IF is_enabled THEN ToFile(effect, sfx_cfg)
                             ELSE None
    /\ UNCHANGED sfx_cfg
    /\ UNCHANGED << arbVars, beyondSfx >>

\* run_twitch_irc sends the SubEvent of a notice of gifted subs
TwitchSubEvent(count) ==
    /\ Len(sfx_rx) < MaxSfxQueue
    /\ sfx_rx' = Append(sfx_rx, <<"SubEvent", count>>)
    /\ UNCHANGED << is_enabled, last_effect, playing, sfx_cfg >>
    /\ UNCHANGED << arbVars, beyondSfx >>

\* the channel owner, whose messages carry the broadcaster's privilege
SfxSenders ==
    { [sender_id |-> "1", sender_name |-> "ann", privilege |-> Standard],
      [sender_id |-> "2", sender_name |-> "bob", privilege |-> Broadcaster] }

\* the messages whose arms send to the sfx player
SfxMessages ==
    { Message(c, u) :
        c \in { d \in Commands : d.type \in {"SetAnarchyMode", "PlaySfx"} },
        u \in SfxSenders }

\* run_commands up to its loop, with what it sends to the sfx player
SfxStart ==
    /\ found = None
    /\ \E r \in {StartCommands(ArbiterState)} :
          /\ Len(sfx_rx) + Len(r.sfx_player_tx) <= MaxSfxQueue
          /\ SetArbiterState(r.s)
          /\ forwarded' = [sender_id |-> None, packets |-> r.gamepad_tx]
          /\ running' = r.ok
          /\ sfx_rx' = sfx_rx \o r.sfx_player_tx
    /\ found' = Some(config_kv)
    /\ UNCHANGED << now, foreign_keys, cooled_moves >>
    /\ UNCHANGED << is_enabled, last_effect, playing, sfx_cfg >>
    /\ UNCHANGED beyondSfx

\* a pass of the loop of run_commands, with what it sends to the sfx player
SfxDispatch(msg) ==
    /\ running
    /\ \E r \in {RunCommand(ArbiterState, msg)} :
          /\ Len(sfx_rx) + Len(r.sfx_player_tx) <= MaxSfxQueue
          /\ SetArbiterState(r.s)
          /\ forwarded' = [sender_id |-> Some(msg.sender_id),
                            packets |-> r.gamepad_tx]
          /\ running' = r.ok
          /\ sfx_rx' = sfx_rx \o r.sfx_player_tx
    /\ UNCHANGED << now, foreign_keys, cooled_moves, found >>
    /\ UNCHANGED << is_enabled, last_effect, playing, sfx_cfg >>
    /\ UNCHANGED beyondSfx

\* the mode texts a database can hold when run_commands starts
SfxStoredModeTexts == {"democracy", "streaming", "invalid"}

\* run_sfx_runner has run, run_commands has not
SfxSpecInit ==
    /\ SchedInit
    /\ SideInit
    /\ foreign_keys = FALSE
    /\ now = 0
    /\ running = FALSE
    /\ found = None
    /\ forwarded = [sender_id |-> None, packets |-> <<>>]
    /\ cooled_moves = [id \in UserIds |-> <<>>]
    /\ \E am \in Stored(SfxStoredModeTexts) :
          \E db \in {[FreshDatabase(foreign_keys) EXCEPT
                         !.config_kv = [anarchy_mode |-> am, cooldown |-> None]]} :
              /\ anarchy_mode = db.anarchy_mode
              /\ cooldown = db.cooldown
              /\ current_game = db.current_game
              /\ users = db.users
              /\ operators = db.operators
              /\ blocked_users = db.blocked_users
              /\ last_command_time = db.last_command_time
              /\ config_kv = db.config_kv

\* a notice of gifted subs below every threshold, and one above
GiftCounts == {0, MaxSubCount}

SfxNext ==
    \/ SfxStart
    \/ \E msg \in SfxMessages : SfxDispatch(msg)
    \/ \E count \in GiftCounts : TwitchSubEvent(count)
    \/ SfxRecv

SfxSpec == SfxSpecInit /\ [][SfxNext]_vars

\* run_commands has reached its loop
CommandsStarted == found # None

\* every request run_commands has sent has been received: what is left in
\* the channel comes from the chat tasks
ReceivedAllOfCommands ==
    \A i \in 1..Len(sfx_rx) : sfx_rx[i][1] = "SubEvent"

\* no Enable is on its way to the dispatcher
NoEnablePending ==
    \A i \in 1..Len(sfx_rx) : sfx_rx[i][1] # "Enable"

\* the step is a pass of sound_effect_runner that receives a Named or a
\* SubEvent
ReceivesSound ==
    /\ sfx_rx # <<>>
    /\ sfx_rx' = Tail(sfx_rx)
    /\ Head(sfx_rx)[1] \in {"Named", "SubEvent"}

\* the flag follows the mode once the dispatcher has caught up
FlagFollowsMode ==
    (CommandsStarted /\ ReceivedAllOfCommands) =>
        (is_enabled <=> anarchy_mode = "Streaming")

Thresholds == {1, 3, 5}

SoundNames == {"horn", "bell"}

\* the file of a sound that sounds knows
SoundFile(name) == IF name = "horn" THEN "horn.mp4" ELSE "bell.mp4"

\* every map from some of the elements of S to T
PartialMaps(S, T) == UNION { [D -> T] : D \in SUBSET S }

\* the SoundEffectConfigs: any thresholds, mapped to names that sounds
\* may or may not know
SfxConfigs ==
    { [sounds |-> [name \in known |-> SoundFile(name)], sub_events |-> sub] :
        known \in SUBSET SoundNames, sub \in PartialMaps(Thresholds, SoundNames) }

\* the dispatcher runs over any configuration; the chat tasks alone send
ToFileInit ==
    /\ SchedInit
    /\ ArbInit
    /\ ~foreign_keys
    /\ SupInit
    /\ ParseInit(<<>>)
    /\ \E cfg \in SfxConfigs : SfxInit(cfg)

ToFileNext ==
    \/ \E count \in SubCounts : TwitchSubEvent(count)
    \/ SfxRecv

ToFileSpec == ToFileInit /\ [][ToFileNext]_vars

\* what cfg.sounds.get(name) yields
Resolved(name, cfg) ==
    IF name \in DOMAIN cfg.sounds THEN Some(cfg.sounds[name]) ELSE None

\* the sound of SubEvent(n) is that of the greatest threshold not above n,
\* and there is none when every threshold is above n
ChosenByGreatestThreshold(n, cfg, chosen) ==
    /\ (\A t \in DOMAIN cfg.sub_events : t > n) => chosen = None
    /\ \A t \in DOMAIN cfg.sub_events :
          (t <= n /\ \A u \in DOMAIN cfg.sub_events : u <= n => u <= t)
              => chosen = Resolved(cfg.sub_events[t], cfg)

\* C29: for SubEvent(n) and any threshold map the sound chosen is the one
\* the greatest threshold <= n is mapped to, resolved in sounds; when n is
\* below every threshold, or the map is empty, no sound is chosen.  This
\* holds of every count for the configuration at hand and of the request
\* the dispatcher received last
SubEventPicksGreatestThreshold ==
    /\ \A n \in SubCounts :
          ChosenByGreatestThreshold(n, sfx_cfg,
                                    ToFile(<<"SubEvent", n>>, sfx_cfg))
    /\ (last_effect # None /\ last_effect[1][1] = "SubEvent") =>
          ChosenByGreatestThreshold(last_effect[1][2], sfx_cfg, playing)

\* a count between the second and the third of three thresholds was
\* received and the sound of the second plays
CountBetweenThresholdsPlayed ==
    /\ DOMAIN sfx_cfg.sub_events = Thresholds
    /\ sfx_cfg.sub_events[1] = "horn"
    /\ sfx_cfg.sub_events[3] = "bell"
    /\ sfx_cfg.sub_events[5] = "horn"
    /\ last_effect = Some(<<"SubEvent", 4>>)
    /\ playing = Some("bell.mp4")

(***************************************************************************)
(* The parser: parse_command, parse_movement and parse_movement_token      *)
(* (command.rs).  An f64 is its sign, its class and, when finite, its      *)
(* magnitude in millionths.                                                *)
(***************************************************************************)
\* the tokens of a line at most
MaxTokens == 3

Finite(neg, micros) == [class |-> "finite", neg |-> neg, micros |-> micros]

NaN == [class |-> "nan", neg |-> FALSE, micros |-> 0]

Infinity(neg) == [class |-> "inf", neg |-> neg, micros |-> 0]

\* str::parse::<f64> over the tokens the model draws: the nearest f64, so
\* that 5.0000000000000001 is 5 and -1e-400 is -0
ParseF64(token) ==
    CASE token = "0" -> Some(Finite(FALSE, 0))
      [] token = "-0" -> Some(Finite(TRUE, 0))
      [] token = "-1e-400" -> Some(Finite(TRUE, 0))
      [] token = "0.0005" -> Some(Finite(FALSE, 500))
      [] token = "1.5" -> Some(Finite(FALSE, 1500000))
      [] token = "5" -> Some(Finite(FALSE, 5000000))
      [] token = "5.0000000000000001" -> Some(Finite(FALSE, 5000000))
      [] token = "5.001" -> Some(Finite(FALSE, 5001000))
      [] token = "-4" -> Some(Finite(TRUE, 4000000))
      [] token = "nan" -> Some(NaN)
      [] token = "inf" -> Some(Infinity(FALSE))
      [] OTHER -> None

\* sec <= bound and sec >= bound of f64, bound being finite and in
\* millionths: false of NaN, and -0 equals 0
F64Le(sec, bound) ==
    CASE sec.class = "nan" -> FALSE
      [] sec.class = "inf" -> sec.neg
      [] OTHER -> (IF sec.neg THEN 0 - sec.micros ELSE sec.micros) <= bound

F64Ge(sec, bound) ==
    CASE sec.class = "nan" -> FALSE
      [] sec.class = "inf" -> ~sec.neg
      [] OTHER -> (IF sec.neg THEN 0 - sec.micros ELSE sec.micros) >= bound

\* (sec * 1000f64) as u64 of a sec the two filters let through, which is
\* finite and within 0 and 5: the cast truncates, and -0 gives 0
MillisAsU64(sec) == IF sec.neg THEN 0 ELSE sec.micros \div 1000

\* the duration parse_movement reads from its last token, were a negative
\* number not filtered out
ParseSecondsKeepingNegative(token) ==
    IF ParseF64(token) = None THEN None
    ELSE IF ~F64Le(ParseF64(token)[1], 5000000) THEN None
    ELSE Some(MillisAsU64(ParseF64(token)[1]))

\* the duration parse_movement reads from its last token
ParseSeconds(token) ==
    IF ParseF64(token) = None THEN None
    ELSE IF ~F64Le(ParseF64(token)[1], 5000000) THEN None
    ELSE IF ~F64Ge(ParseF64(token)[1], 0) THEN None
    ELSE Some(MillisAsU64(ParseF64(token)[1]))

\* parse_movement_token
ParseMovementToken(token) ==
    CASE token = "a" -> Some("A")
      [] token = "b" -> Some("B")
      [] token = "c" -> Some("C")
      [] token = "x" -> Some("X")
      [] token = "y" -> Some("Y")
      [] token = "z" -> Some("Z")
      [] token \in {"tl", "lt", "lb"} -> Some("TL")
      [] token \in {"tr", "rt", "rb"} -> Some("TR")
      [] token \in {"up", "u"} -> Some("Up")
      [] token \in {"down", "d"} -> Some("Down")
      [] token \in {"left", "l"} -> Some("Left")
      [] token \in {"right", "r"} -> Some("Right")
      [] token = "start" -> Some("Start")
      [] token = "select" -> Some("Select")
      [] OTHER -> None

RECURSIVE ParseMovementLoop(_, _, _, _)
\* the loop of parse_movement from the token at idx on, and what follows it
ParseMovementLoop(tokens, idx, movements, duration) ==
    IF idx > Len(tokens)
    THEN IF movements = <<>> \/ duration = None THEN None
         ELSE Some([type |-> "Movement",
                    packet |-> [movements |-> movements,
                                duration |-> duration[1],
                                stagger |-> 0, blocking |-> FALSE]])
    ELSE IF ParseMovementToken(tokens[idx]) # None
    THEN ParseMovementLoop(tokens, idx + 1,
                           Append(movements, ParseMovementToken(tokens[idx])[1]),
                           duration)
    ELSE IF idx = Len(tokens)
    THEN ParseMovementLoop(tokens, idx + 1, movements,
                           ParseSeconds(tokens[idx]))
    ELSE None

\* parse_movement
ParseMovement(tokens) ==
    IF tokens = <<>> THEN None
    ELSE ParseMovementLoop(tokens, 1, <<>>, Some(100))

\* str::to_lowercase over the tokens the model draws
ToLowercase(token) ==
    CASE token = "A" -> "a"
      [] token = "Mode" -> "mode"
      [] token = "NaN" -> "nan"
      [] OTHER -> token

\* the code point U+E0000, which some chat clients append
DedupMarker == "U+E0000"

RECURSIVE Preprocess(_)
\* the tokens of parse_command: lowercased, the marker dropped
Preprocess(line) ==
    IF line = <<>> THEN <<>>
    ELSE IF ToLowercase(Head(line)) = DedupMarker THEN Preprocess(Tail(line))
    ELSE << ToLowercase(Head(line)) >> \o Preprocess(Tail(line))

\* duration_str::parse over the tokens the model draws
ParseDurationStr(token) == IF token \in {"0", "5", "1s"} THEN Some(token) ELSE None

Partial(hint) == Some([type |-> "Partial", partial |-> hint])

\* the match of parse_command over the tokens, by the kind of its result
AdminForm(tokens) ==
    IF Len(tokens) < 2 \/ tokens[1] # "tp" THEN None
    ELSE LET n == Len(tokens)
             kw == tokens[2]
         IN  CASE kw = "block" ->
                    IF n = 2 THEN Partial("Block")
                    ELSE IF n = 3 THEN Some([type |-> "Block"])
                    ELSE IF n = 4
                    THEN IF ParseDurationStr(tokens[4]) # None
                         THEN Some([type |-> "Block"]) ELSE Partial("Block")
                    ELSE None
               [] kw \in {"unblock", "op", "deop", "sfx"} ->
                    IF n = 2 THEN Partial(kw)
                    ELSE IF n = 3
                    THEN Some([type |-> CASE kw = "unblock" -> "Unblock"
                                          [] kw = "op" -> "AddOperator"
                                          [] kw = "deop" -> "RemoveOperator"
                                          [] OTHER -> "PlaySfx"])
                    ELSE None
               [] kw = "games" -> IF n = 2 THEN Some([type |-> "ListGames"]) ELSE None
               [] kw \in {"game", "switch", "start"} ->
                    IF n = 2 THEN Partial("Game") ELSE Some([type |-> "Game"])
               [] kw = "stop" -> IF n = 2 THEN Some([type |-> "Stop"]) ELSE None
               [] kw = "list" ->
                    IF n = 2 THEN Partial("List")
                    ELSE IF n # 3 THEN None
                    ELSE IF tokens[3] = "games" THEN Some([type |-> "ListGames"])
                    ELSE IF tokens[3] \in {"block", "blocks", "blocked"}
                    THEN Some([type |-> "ListBlocked"])
                    ELSE IF tokens[3] \in {"ops", "operators", "op"}
                    THEN Some([type |-> "ListOperators"])
                    ELSE None
               [] kw \in {"help", "commands"} ->
                    IF n = 2 THEN Some([type |-> "PrintHelp"]) ELSE None
               [] kw \in {"save", "load", "reset"} ->
                    IF n = 2
                    THEN Some([type |-> CASE kw = "save" -> "SaveState"
                                          [] kw = "load" -> "LoadState"
                                          [] OTHER -> "Reset"])
                    ELSE None
               [] kw = "mode" ->
                    IF n = 2 THEN Some([type |-> "PrintAnarchyMode"])
                    ELSE IF n # 3 THEN None
                    ELSE IF tokens[3] \in {"anarchy", "democracy", "restricted",
                                           "stream", "streaming"}
                    THEN Some([type |-> "SetAnarchyMode"])
                    ELSE Partial("SetAnarchyMode")
               [] kw = "cooldown" ->
                    IF n = 2 THEN Partial("SetCooldown")
                    ELSE IF n # 3 THEN None
                    ELSE IF ParseDurationStr(tokens[3]) # None
                    THEN Some([type |-> "SetCooldown"])
                    ELSE Partial("SetCooldown")
               [] kw = "controls" -> Some([type |-> "Controls"])
               [] OTHER -> None

\* parse_command over the line split on whitespace
ParseCommand(line) ==
    IF ParseMovement(Preprocess(line)) # None
    THEN ParseMovement(Preprocess(line))
    ELSE AdminForm(Preprocess(line))

\* the tokens a line is made of
LineTokens ==
    {"a", "A", "lt", "u", "start", "mode", "tp", DedupMarker,
     "0", "-0", "-1e-400", "0.0005", "1.5", "5", "5.0000000000000001",
     "5.001", "-4", "nan"}

Lines == UNION { [1..n -> LineTokens] : n \in 0..MaxTokens }

\* everything the parser leaves alone
beyondParse == << schedVars, arbVars, supVars, sfxVars >>

\* any line is there and parse_command has not been called
ParseSpecInit ==
    /\ SchedInit
    /\ ArbInit
    /\ ~foreign_keys
    /\ SupInit
    /\ SfxInit(DefaultSfxConfig)
    /\ \E line \in Lines : ParseInit(line)

\* parse_command(input)
Parse ==
    /\ parsed = None
    /\ parsed' = Some(ParseCommand(input))
    /\ UNCHANGED input
    /\ UNCHANGED beyondParse

ParseSpec == ParseSpecInit /\ [][Parse]_vars

\* the tokens that name a movement
MovementTokens ==
    {"a", "b", "c", "x", "y", "z", "tl", "lt", "lb", "tr", "rt", "rb",
     "up", "u", "down", "d", "left", "l", "right", "r", "start", "select"}

\* the token is no number, or a number below 0 or above 5 seconds
RejectedDuration(token) ==
    \/ ParseF64(token) = None
    \/ ParseF64(token)[1].class = "nan"
    \/ ParseF64(token)[1].class = "inf"
    \/ ParseF64(token)[1].neg /\ ParseF64(token)[1].micros > 0
    \/ ~ParseF64(token)[1].neg /\ ParseF64(token)[1].micros > 5000000

\* parse_command has returned a Movement
ReturnedMovement ==
    /\ parsed # None
    /\ parsed[1] # None
    /\ parsed[1][1].type = "Movement"

\* C30: every Movement the parser returns has a non-empty list of
\* movements without Mode, a duration from 0 to 5000 ms, stagger 0 and
\* blocking false; no Movement is returned for tokens whose last is a
\* duration that is negative, above 5 seconds or no number, nor for tokens
\* with a non-movement token before the last
ParserReturnsBoundedMovements ==
    ReturnedMovement =>
        /\ parsed[1][1].packet.movements # <<>>
        /\ \A i \in 1..Len(parsed[1][1].packet.movements) :
              parsed[1][1].packet.movements[i] \in Movement \ {"Mode"}
        /\ parsed[1][1].packet.duration \in 0..5000
        /\ parsed[1][1].packet.stagger = 0
        /\ parsed[1][1].packet.blocking = FALSE
        /\ \E tokens \in {Preprocess(input)} :
              /\ tokens # <<>>
              /\ \A i \in 1..(Len(tokens) - 1) : tokens[i] \in MovementTokens
              /\ tokens[Len(tokens)] \notin MovementTokens =>
                    ~RejectedDuration(tokens[Len(tokens)])

\* two movements and a duration of one second and a half were parsed
ParsedTwoMovementsAndDuration ==
    /\ input = <<"A", "lt", "1.5">>
    /\ ReturnedMovement
    /\ parsed[1][1].packet.movements = <<"A", "TL">>
    /\ parsed[1][1].packet.duration = 1500

(***************************************************************************)
(* The scheduler's queue and its deferred packet.                          *)
(***************************************************************************)
\* the step is a pass of process_tick
TickStep ==
    /\ ~done
    /\ received' = received
    /\ draining' = draining

\* the front of the queue after the step, were process_packet called on it
\* by a tick
FrontAfterStep ==
    ProcessPacket([movement_time_remaining |-> movement_time_remaining',
                   apply_next_tick |-> apply_next_tick',
                   packet_queue |-> packet_queue',
                   draining |-> draining',
                   actions |-> actions'],
                  Head(packet_queue'), TRUE)

\* C31: a tick whose decrement-and-release step leaves no button active,
\* the tick that releases the last active button included, drains the
\* queue on that same tick: after it the queue is empty or its front is a
\* packet that cannot be processed
TickDrainsOnceNothingIsActive ==
    [][(TickStep /\ TimeRemainingEmpty(TickDown(RunnerState)))
          => (packet_queue' = <<>> \/ ~FrontAfterStep.processed)]_vars

\* the buttons held down on the gamepad after the first n events of the
\* trace: those whose last event among them is a press
HeldAfter(n) ==
    { m \in Movement :
        \E i \in 1..n :
            /\ actions[i].m = m
            /\ actions[i].type = "press"
            /\ \A j \in (i + 1)..n : actions[j].m # m }

\* C32: a blocking packet begins only when no button is held down: before
\* its first press every button pressed earlier has been released, whether
\* the packet ran on arrival or from the queue
BlockingStartsWithNothingHeld ==
    \A k \in 1..Len(received) :
        received[k].packet.blocking =>
            \A i \in 1..Len(actions) :
                (actions[i].by = k /\ \A j \in 1..(i - 1) : actions[j].by # k)
                    => HeldAfter(i - 1) = {}

\* the packet received k-th has been pressed
Pressed(k) ==
    \E i \in 1..Len(actions) : actions[i].by = k /\ actions[i].type = "press"

\* C33: the loop returns only when no received packet still waits to be
\* pressed: the queue and the apply_next_tick slot are empty and every
\* packet received has been pressed
ReturnsWithEveryPacketPressed ==
    done =>
        /\ packet_queue = <<>>
        /\ apply_next_tick = <<>>
        /\ \A k \in 1..Len(received) : Pressed(k)

\* the packet received k-th waits in the queue or in the apply_next_tick
\* slot
Waiting(k) ==
    \/ \E i \in 1..Len(packet_queue) : packet_queue[i].id = k
    \/ apply_next_tick # <<>> /\ apply_next_tick[1].id = k

\* C34: a packet is stored in apply_next_tick only when the slot is empty,
\* or has just been emptied by the tick that pressed its packet; no packet
\* received is lost: it has been pressed or it still waits
DeferredPacketIsNeverOverwritten ==
    /\ [][(apply_next_tick' # apply_next_tick /\ apply_next_tick' # <<>>)
              => (apply_next_tick = <<>> \/ TickStep)]_vars
    /\ [](\A k \in 1..Len(received) : Pressed(k) \/ Waiting(k))

\* C35: blocking packets run in the order they were received: of two
\* blocking packets the block of the later one follows the whole block of
\* the earlier one, also when the earlier one had to wait in the queue
BlockingPacketsRunInOrder ==
    \A b1 \in DOMAIN received : \A b2 \in DOMAIN received :
        (/\ b1 < b2
         /\ received[b1].packet.blocking
         /\ received[b2].packet.blocking
         /\ EventsBy(b2) # {}) =>
            /\ EventsBy(b1) # {}
            /\ \A i \in EventsBy(b1) : \A j \in EventsBy(b2) : i < j

(***************************************************************************)
(* The cooldown gate of run_commands, seen from the loop: a message of a   *)
(* sender below Operator, in Democracy mode with a cooldown set.           *)
(***************************************************************************)
ReachesCooldownGate(u) ==
    /\ running
    /\ anarchy_mode = "Democracy"
    /\ cooldown # 0
    /\ u.sender_id \notin operators

LapsedByTheClock(id) ==
    \/ last_command_time[id] = None
    \/ now >= last_command_time[id][1] + cooldown

MovementWouldPass(c, u) ==
    /\ c.type = "Movement"
    /\ ~IsBlocked(ArbiterState, u.sender_id).blocked
    /\ current_game # None
          => ~IsMovementRestricted(GameCommands[current_game[1]], c.packet)

\* C36: at the cooldown gate the message goes on iff the sender has no
\* last-command time or now >= last + cooldown; whether it goes on or is
\* rejected, the sender's last-command time becomes now and nobody else's
\* time changes, so that a rejected message restarts the sender's window
CooldownTestedAndAlwaysSet ==
    \A c \in Commands, u \in Senders :
        ReachesCooldownGate(u) =>
        \E r \in {RunCommand(ArbiterState, Asserting(c, u, Standard))} :
            /\ r.s.last_command_time =
                  [last_command_time EXCEPT ![u.sender_id] = Some(now)]
            /\ ~LapsedByTheClock(u.sender_id) =>
                  /\ r.gamepad_tx = <<>>
                  /\ r.reply_tx = <<None>>
                  /\ [r.s EXCEPT !.last_command_time = last_command_time,
                                 !.users = users] = ArbiterState
            /\ MovementWouldPass(c, u) =>
                  (r.gamepad_tx = <<c.packet>> <=> LapsedByTheClock(u.sender_id))

\* in Democracy mode, a full cooldown after the clock started, the viewer's
\* message has just been through the gate: nothing was forwarded, and the
\* viewer's last-command time stands at now
RejectionRestartedTheWindow ==
    /\ anarchy_mode = "Democracy"
    /\ cooldown = MaxCooldown
    /\ now = MaxCooldown
    /\ forwarded = [sender_id |-> Some("1"), packets |-> <<>>]
    /\ last_command_time["1"] = Some(now)

(***************************************************************************)
(* The arbiter with senders that change their display name: either user    *)
(* sends under either name, so that a user renames and the other takes     *)
(* over the name left behind.  Both builds' foreign_keys settings are run. *)
(***************************************************************************)
DisplayNames == {"ann", "bob"}

RenamingSenders ==
    { [sender_id |-> u.sender_id, sender_name |-> n, privilege |-> u.privilege] :
        u \in Senders, n \in DisplayNames }

RenamingCommands ==
    { c \in Commands :
        c.type \in {"Movement", "Block", "Unblock", "AddOperator",
                    "RemoveOperator", "SetAnarchyMode"} }

RenamingMessages == { Message(c, u) : c \in RenamingCommands, u \in RenamingSenders }

RenameNext ==
    \/ \E msg \in RenamingMessages : Dispatch(msg)
    \/ ClockTick

RenameSpec == ArbSpecInit /\ [][RenameNext]_vars

\* nothing but the records of the sender's id stands between this Movement
\* and the scheduler
OnlyRecordsDecide(c) ==
    /\ cooldown = 0
    /\ current_game # None
          => ~IsMovementRestricted(GameCommands[current_game[1]], c.packet)

\* C37: block and operator records follow the user's id, not the display
\* name: under whatever display name a user sends a Movement, it is stopped
\* iff a block in force is recorded for the user's id and, in Restricted
\* mode, let through iff the user's id is in the operator list; handling it
\* adds no block and changes no operator, whoever bore the name before
RecordsFollowUserId ==
    running =>
    \A u \in RenamingSenders, c \in MovementCommands :
        \E r \in {RunCommand(ArbiterState, Asserting(c, u, Standard))} :
            r.ok =>
                /\ r.s.operators = operators
                /\ \A o \in UserIds \ {u.sender_id} :
                      r.s.blocked_users[o] = blocked_users[o]
                /\ r.s.blocked_users[u.sender_id] \in
                      { blocked_users[u.sender_id],
                        IsBlocked(ArbiterState, u.sender_id).s
                            .blocked_users[u.sender_id] }
                /\ (OnlyRecordsDecide(c) /\ anarchy_mode = "Democracy") =>
                      (r.gamepad_tx = <<>>
                          <=> IsBlocked(ArbiterState, u.sender_id).blocked)
                /\ (OnlyRecordsDecide(c) /\ anarchy_mode = "Restricted") =>
                      (r.gamepad_tx # <<>>
                          <=> /\ u.sender_id \in operators
                              /\ ~IsBlocked(ArbiterState, u.sender_id).blocked)

\* the viewer was blocked under the name ann and now goes by bob; the other
\* user has taken over the name ann and their Movement has just been
\* forwarded
OldNameTakenOverUnblocked ==
    /\ blocked_users["1"] # None
    /\ users = { [twitch_id |-> "1", name |-> "bob"],
                 [twitch_id |-> "2", name |-> "ann"] }
    /\ anarchy_mode = "Democracy"
    /\ forwarded.sender_id = Some("2")
    /\ forwarded.packets # <<>>

\* the reply of this pass of the loop begins with the word
RepliesWith(r, word) ==
    /\ r.reply_tx # <<>>
    /\ r.reply_tx[1] # None
    /\ r.reply_tx[1][1][1] = word

\* C38: a success reply reflects the durable state: after a reply
\* "Blocked {user} ..." the named user's id is in the blocklist, after a
\* reply "Added {user} as operator" it is in the operator list; for a name
\* that is not in the user registry neither list changes and no success
\* reply is given
SuccessReplyReflectsDurableState ==
    running =>
    \A c \in { k \in Commands : k.type \in {"Block", "AddOperator"} }, u \in Senders :
        \E r \in {RunCommand(ArbiterState, Message(c, u))} :
        \E id \in {GetUserIdFromName(r.s, c.user)} :
            /\ RepliesWith(r, "Blocked") =>
                  id # None /\ r.s.blocked_users[id[1]] # None
            /\ RepliesWith(r, "Added") =>
                  id # None /\ id[1] \in r.s.operators
            /\ id = None =>
                  /\ r.s.operators = operators
                  /\ r.s.blocked_users = blocked_users
                  /\ ~RepliesWith(r, "Blocked")
                  /\ ~RepliesWith(r, "Added")

====
